---- MODULE Spec2Model ----
(***************************************************************************)
(* Model of the chunker, the chunk loader and the retrieval queries of the *)
(* herbicide-label knowledge graph (packages/graph).                       *)
(*                                                                         *)
(* Strings are sequences of one-character strings; "NL" and "TAB" stand    *)
(* for the newline and tab characters.                                     *)
(***************************************************************************)
EXTENDS Integers, Sequences, FiniteSets, Bags, TLC

\* ------------------------------------------------------------------------
\* Bounds of the model
\* ------------------------------------------------------------------------

\* longest document (number of table blocks) given to the chunker
MaxTables == 3

\* number of calls of load_chunks_directory
MaxDirRuns == 2

\* number of PDFs of a run of resume_gemini.py, and largest --max-retries
MaxPdfs == 2

\* the number of markdown files process_directory is given
MaxMdFiles == 3

\* the number of PDFs parse_directory is given
MaxLabels == 2

MaxRetries == 3

\* longest record kept of the turns two concurrent loads take at the store
MaxTurns == 3

\* number of session.run calls that raise
MaxStoreFailures == 1

\* the largest k a query is called with
MaxK == 3

\* number of times the chunker is run on the same document
MaxChunkerRuns == 2

\* ------------------------------------------------------------------------
\* State
\* ------------------------------------------------------------------------

VARIABLES
    \* chunk_docling_json, run as a generator over the tables of one document
    c_tables,          \* doc["tables"], as indices into Tables
    c_max,             \* max_chunk_tokens
    c_pc,              \* "idle" | "loop"
    c_idx,             \* position of the for loop in tables
    sequence,          \* the local variable sequence
    current_section,   \* the local variable current_section
    yielded,           \* the chunks yielded so far by the current call
    yield_from,        \* for each yielded chunk, the position of its block
    c_run,             \* number of calls started on this document
    c_first,           \* what the first completed call yielded
    \* the graph store
    store,
    \* load_chunks_directory
    d_runs,            \* number of calls so far; the clock of datetime()
    d_files,           \* files, as indices into Files
    d_i,               \* position of the for loop in files
    link_entities,     \* the argument link_entities
    total_stats,
    \* load_chunks_from_docling on files[d_i]
    l_pc,              \* "idle" | "begin" | "document" | "herbicide" | "chunk" | "next"
                       \* | "link" | "return" | "dir_return"
    chunks,            \* the list chunks
    mentions,          \* extract_entity_mentions(chunk.text) of every chunk
    l_i,               \* position of the for loop in chunks
    l_weeds,           \* weed names of chunk l_i not linked yet
    l_crops,           \* crop names of chunk l_i not linked yet
    stats,
    failures,          \* number of session.run calls that raised
    \* history
    h_attempted,       \* files load_chunks_from_docling was called on, this directory call
    h_raised,          \* files whose load raised, this directory call
    h_start,           \* the store when the current load started
    h_repeat,          \* the load before this one was of the same file and completed
    h_ep_store,        \* the store before the first of the interrupted loads of h_ep_file
    h_ep_file,
    h_ep_link,
    h_ep_cuts,         \* number of loads of h_ep_file interrupted in a row
    h_done_file,       \* the file of the last load that wrote, if it completed; else 0
    h_done_link,       \* link_entities of that load
    h_writes,          \* number of session.run calls completed by the current load
    h_cut_writes,      \* h_writes of the last interrupted load
    \* hybrid_search and find_chunks_for_weed
    q_pc,              \* "idle" | "vector" | "expand" | "return" | "find" | "find_return"
    query_text,
    q_k,               \* the argument k
    expand_graph,
    q_chunk_type,      \* the argument chunk_type
    weed_name,
    vector_results,
    result,
    calls,             \* the queries sent to the store by the current call, in order
    f_rows,            \* the list find_chunks_for_weed returns
    raised,            \* find_chunks_for_weed raised
    h_vector,          \* history: what vector_search_chunks returned
    \* two calls of load_chunks_from_docling running at the same time on one store
    shared,            \* the store the two calls write to
    r_file,            \* for each call, the file it loads
    r_link,            \* for each call, its argument link_entities
    r_pc,              \* for each call, "idle" | "begin" | "document" | "herbicide"
                       \* | "chunk" | "next" | "link" | "done"
    r_chunks,          \* for each call, its list chunks
    r_mentions,        \* for each call, the mentions of every chunk
    r_i,               \* for each call, the position of the for loop in chunks
    r_weeds,           \* for each call, weed names of chunk r_i not linked yet
    r_crops,           \* for each call, crop names of chunk r_i not linked yet
    r_init,            \* history: the store before the two calls
    r_turns,           \* history: the calls in the order they wrote, without repeats
    \* resume_gemini.py: main and, for each PDF, its call of run_single
    m_pc,              \* "idle" | "submit" | "collect" | "done"
    total,             \* len(pdfs)
    max_retries,
    base_delay,
    max_concurrent,
    rs_pc,             \* "none" | "pending" | "running" | "sleeping" | "returned"
                       \* | "collected"
    attempt,           \* the loop variable attempt
    rs_result,         \* what run_single returned: "none" | "True" | "False"
    success,
    h_outcomes,        \* history: how each attempt ended
    h_waits,           \* history: the arguments of time.sleep in run_single
    \* extractor.py: process_directory and the thread of the pool
    e_pc,              \* "idle" | "loop" | "waiting" | "shutdown" | "done"
    e_total,           \* len(md_files)
    e_i,               \* the loop variable i
    worker,            \* the call of _call_gemini: "none" | "running" | "returned" | "raised"
    hangs,             \* the call of _call_gemini that is running never ends
    results,
    h_hung,            \* history: the files whose model call never ended
    \* parser.py: parse_directory and parse_pdf
    p_pc,              \* "idle" | "loop" | "awaiting" | "returned" | "done"
    force,
    has_aload,         \* hasattr(parser, "aload_data")
    p_i,               \* the position of the for loop in pdf_files
    p_out,             \* for each PDF, the content of its output file, or Null
    p_result,          \* the dict result of parse_pdf
    aload_calls,       \* for each PDF, the number of calls of parser.aload_data
    p_stats,
    p_parsed,          \* the keys of metadata_store["parsed"]
    p_failed,          \* metadata_store["failed"]
    h_before,          \* history: the output file when parse_pdf was called
    h_outcome,         \* history: what the parser did in the current call
    \* the entity loader and the lookups of queries.py
    k_store,           \* the graph they run on
    k_call,            \* the last call and its arguments
    k_result           \* what the last call returned

chunker_vars ==
    <<c_tables, c_max, c_pc, c_idx, sequence, current_section, yielded, yield_from,
      c_run, c_first>>

loader_vars ==
    <<store, d_runs, d_files, d_i, link_entities, total_stats, l_pc, chunks, mentions, l_i,
      l_weeds, l_crops,
      stats, failures, h_attempted, h_raised, h_start, h_repeat, h_ep_store, h_ep_file,
      h_ep_link, h_ep_cuts, h_done_file, h_done_link, h_writes, h_cut_writes>>

query_vars ==
    <<q_pc, query_text, q_k, expand_graph, q_chunk_type, weed_name, vector_results, result,
      calls, f_rows, raised, h_vector>>

runs_vars ==
    <<shared, r_file, r_link, r_pc, r_chunks, r_mentions, r_i, r_weeds, r_crops, r_init,
      r_turns>>

resume_vars ==
    <<m_pc, total, max_retries, base_delay, max_concurrent, rs_pc, attempt, rs_result,
      success, h_outcomes, h_waits>>

\* the variables of the graph package and those of the ingestion package
lookup_vars == <<k_store, k_call, k_result>>

graph_vars == <<chunker_vars, loader_vars, query_vars, runs_vars, lookup_vars>>

extract_vars == <<e_pc, e_total, e_i, worker, hangs, results, h_hung>>

parse_vars ==
    <<p_pc, force, has_aload, p_i, p_out, p_result, aload_calls, p_stats, p_parsed, p_failed,
      h_before, h_outcome>>

ingestion_vars == <<resume_vars, extract_vars, parse_vars>>

\* what the actions of each part of the ingestion package leave alone
not_resume == <<graph_vars, extract_vars, parse_vars>>

not_extract == <<graph_vars, resume_vars, parse_vars>>

not_parse == <<graph_vars, resume_vars, extract_vars>>

vars == <<graph_vars, ingestion_vars>>

\* ------------------------------------------------------------------------
\* Python strings
\* ------------------------------------------------------------------------

Min2(a, b) == IF a <= b THEN a ELSE b

Max2(a, b) == IF a >= b THEN a ELSE b

MinOf(S) == CHOOSE x \in S : \A y \in S : x <= y

MaxOf(S) == CHOOSE x \in S : \A y \in S : x >= y

\* the characters str.strip, str.split and the regex class \s treat as blank
Whitespace == {" ", "NL", "TAB"}

DigitChars == {"0", "1", "2", "3", "4", "5", "6", "7", "8", "9"}

LowerLetters ==
    {"a", "b", "c", "d", "e", "f", "g", "h", "i", "j", "k", "l", "m",
     "n", "o", "p", "q", "r", "s", "t", "u", "v", "w", "x", "y", "z"}

UpperToLower ==
    ("A" :> "a") @@ ("B" :> "b") @@ ("C" :> "c") @@ ("D" :> "d") @@ ("E" :> "e") @@
    ("F" :> "f") @@ ("G" :> "g") @@ ("H" :> "h") @@ ("I" :> "i") @@ ("J" :> "j") @@
    ("K" :> "k") @@ ("L" :> "l") @@ ("M" :> "m") @@ ("N" :> "n") @@ ("O" :> "o") @@
    ("P" :> "p") @@ ("Q" :> "q") @@ ("R" :> "r") @@ ("S" :> "s") @@ ("T" :> "t") @@
    ("U" :> "u") @@ ("V" :> "v") @@ ("W" :> "w") @@ ("X" :> "x") @@ ("Y" :> "y") @@
    ("Z" :> "z")

\* str.lower() / Cypher toLower()
Lower(s) ==
    [i \in 1..Len(s) |-> IF s[i] \in DOMAIN UpperToLower THEN UpperToLower[s[i]] ELSE s[i]]

\* len(s.strip())
StripLen(s) ==
    LET solid == {i \in 1..Len(s) : s[i] \notin Whitespace}
    IN  IF solid = {} THEN 0 ELSE MaxOf(solid) - MinOf(solid) + 1

\* len(s.split()): the number of maximal runs of non-blank characters
WordCount(s) ==
    Cardinality({i \in 1..Len(s) :
                    s[i] \notin Whitespace /\ (i = 1 \/ s[i - 1] \in Whitespace)})

\* sep.join(items)
RECURSIVE Join(_, _)
Join(sep, items) ==
    IF items = <<>> THEN <<>>
    ELSE IF Len(items) = 1 THEN items[1]
    ELSE items[1] \o sep \o Join(sep, Tail(items))

\* sub in s / Cypher CONTAINS
Contains(s, sub) ==
    \E p \in 1..(Len(s) - Len(sub) + 1) : SubSeq(s, p, p + Len(sub) - 1) = sub

\* s.replace(old, new), old not empty
RECURSIVE Replace(_, _, _)
Replace(s, old, new) ==
    IF Len(s) < Len(old) THEN s
    ELSE IF SubSeq(s, 1, Len(old)) = old
         THEN new \o Replace(SubSeq(s, Len(old) + 1, Len(s)), old, new)
         ELSE <<s[1]>> \o Replace(Tail(s), old, new)

DigitOf == <<"0", "1", "2", "3", "4", "5", "6", "7", "8", "9">>

\* str(n) of a natural number
RECURSIVE Str(_)
Str(n) ==
    IF n < 10 THEN <<DigitOf[n + 1]>> ELSE Str(n \div 10) \o <<DigitOf[(n % 10) + 1]>>

\* ------------------------------------------------------------------------
\* Regular expressions (module re), for the patterns the sources use.  A
\* pattern is a sequence of atoms: a literal character, "WS*" for \s*,
\* "AZ" for [a-z], "D+" for \d+, and "c?" for an optional character.
\* Patterns compiled with re.I are written in lower case and matched
\* against the lower-cased text.
\* ------------------------------------------------------------------------

OptionalChar == ("s?" :> "s") @@ ("'?" :> "'")

\* the number of consecutive characters of t from position p that are in S
RunLen(t, p, S) ==
    LET stops == {i \in p..Len(t) : t[i] \notin S}
    IN  IF stops = {} THEN Len(t) - p + 1 ELSE MinOf(stops) - p

\* The position after the match of atoms ai.. of pat at position p of t that
\* the backtracking matcher finds first (quantifiers are greedy); 0 if none.
RECURSIVE MatchEnd(_, _, _, _)
RECURSIVE GreedyRun(_, _, _, _, _, _)
GreedyRun(t, p, k, kmin, pat, ai) ==
    IF k < kmin THEN 0
    ELSE LET r == MatchEnd(t, p + k, pat, ai + 1)
         IN  IF r # 0 THEN r ELSE GreedyRun(t, p, k - 1, kmin, pat, ai)

MatchEnd(t, p, pat, ai) ==
    IF ai > Len(pat) THEN p
    ELSE LET a == pat[ai]
         IN  IF a = "WS*" THEN GreedyRun(t, p, RunLen(t, p, Whitespace), 0, pat, ai)
             ELSE IF a = "D+" THEN GreedyRun(t, p, RunLen(t, p, DigitChars), 1, pat, ai)
             ELSE IF a = "AZ"
                  THEN IF p <= Len(t) /\ t[p] \in LowerLetters
                       THEN MatchEnd(t, p + 1, pat, ai + 1) ELSE 0
             ELSE IF a \in DOMAIN OptionalChar
                  THEN GreedyRun(t, p, IF p <= Len(t) /\ t[p] = OptionalChar[a] THEN 1 ELSE 0,
                                 0, pat, ai)
             ELSE IF p <= Len(t) /\ t[p] = a THEN MatchEnd(t, p + 1, pat, ai + 1) ELSE 0

\* re.search(pat, t) is not None
Search(pat, t) == \E p \in 1..(Len(t) + 1) : MatchEnd(t, p, pat, 1) # 0

\* re.search of an alternation a|b|c
SearchAny(alts, t) == \E i \in DOMAIN alts : Search(alts[i], t)

\* re.search(pat, t).group(): the leftmost match
MatchGroup(pat, t) ==
    LET p == MinOf({q \in 1..(Len(t) + 1) : MatchEnd(t, q, pat, 1) # 0})
    IN  SubSeq(t, p, MatchEnd(t, p, pat, 1) - 1)

\* ------------------------------------------------------------------------
\* chunker.py and chunk_loader.py: the pattern tables
\* ------------------------------------------------------------------------

SECTION_PATTERNS ==
    <<[name |-> "product_identity", alts |->
         <<<<"l", "a", "b", "e", "l", "WS*", "n", "a", "m", "e">>,
           <<"p", "r", "o", "d", "u", "c", "t", "WS*", "n", "a", "m", "e">>,
           <<"a", "p", "v", "m", "a">>>>],
      [name |-> "claims", alts |->
         <<<<"s", "t", "a", "t", "e", "m", "e", "n", "t", "WS*", "o", "f", "WS*", "c", "l", "a", "i", "m", "s">>,
           <<"c", "l", "a", "i", "m">>>>],
      [name |-> "resistance_warning", alts |->
         <<<<"r", "e", "s", "i", "s", "t", "a", "n", "c", "e", "WS*", "w", "a", "r", "n", "i", "n", "g">>,
           <<"g", "r", "o", "u", "p", "WS*", "AZ", "WS*", "h", "e", "r", "b", "i", "c", "i", "d", "e">>>>],
      [name |-> "directions_for_use", alts |->
         <<<<"s", "i", "t", "u", "a", "t", "i", "o", "n">>,
           <<"c", "r", "o", "p">>,
           <<"w", "e", "e", "d", "s">>,
           <<"r", "a", "t", "e">>,
           <<"c", "r", "i", "t", "i", "c", "a", "l", "WS*", "c", "o", "m", "m", "e", "n", "t", "s">>>>],
      [name |-> "weed_table", alts |->
         <<<<"w", "e", "e", "d", "WS*", "t", "a", "b", "l", "e">>,
           <<"w", "e", "e", "d", "s?", "WS*", "c", "o", "n", "t", "r", "o", "l", "l", "e", "d">>>>],
      [name |-> "withholding_period", alts |->
         <<<<"w", "i", "t", "h", "h", "o", "l", "d", "i", "n", "g">>,
           <<"w", "h", "p">>,
           <<"h", "a", "r", "v", "e", "s", "t">>>>],
      [name |-> "compatibility", alts |->
         <<<<"c", "o", "m", "p", "a", "t", "i", "b">>,
           <<"t", "a", "n", "k", "WS*", "m", "i", "x">>,
           <<"m", "i", "x", "i", "n", "g">>>>],
      [name |-> "safety", alts |->
         <<<<"s", "a", "f", "e", "t", "y">>,
           <<"f", "i", "r", "s", "t", "WS*", "a", "i", "d">>,
           <<"p", "o", "i", "s", "o", "n">>,
           <<"h", "a", "z", "a", "r", "d">>>>],
      [name |-> "storage", alts |->
         <<<<"s", "t", "o", "r", "a", "g", "e">>,
           <<"d", "i", "s", "p", "o", "s", "a", "l">>,
           <<"c", "o", "n", "t", "a", "i", "n", "e", "r">>>>]>>

RATE_PATTERN ==
    <<<<"D+", "WS*", "m", "l", "/", "h", "a">>,
      <<"D+", "WS*", "g", "/", "h", "a">>,
      <<"D+", "WS*", "l", "/", "h", "a">>>>

WEED_PATTERNS ==
    <<<<"r", "y", "e", "g", "r", "a", "s", "s">>,
      <<"c", "a", "p", "e", "w", "e", "e", "d">>,
      <<"w", "i", "l", "d", "WS*", "r", "a", "d", "i", "s", "h">>,
      <<"w", "i", "l", "d", "WS*", "o", "a", "t", "s?">>,
      <<"b", "r", "o", "m", "e", "WS*", "g", "r", "a", "s", "s">>,
      <<"b", "a", "r", "l", "e", "y", "WS*", "g", "r", "a", "s", "s">>,
      <<"c", "l", "o", "v", "e", "r">>,
      <<"d", "o", "c", "k">>,
      <<"t", "h", "i", "s", "t", "l", "e">>,
      <<"f", "u", "m", "i", "t", "o", "r", "y">>,
      <<"f", "a", "t", "WS*", "h", "e", "n">>,
      <<"c", "h", "a", "r", "l", "o", "c", "k">>,
      <<"s", "o", "w", "WS*", "t", "h", "i", "s", "t", "l", "e">>,
      <<"s", "k", "e", "l", "e", "t", "o", "n", "WS*", "w", "e", "e", "d">>,
      <<"t", "u", "r", "n", "i", "p", "WS*", "w", "e", "e", "d">>,
      <<"s", "h", "e", "p", "h", "e", "r", "d", "'?", "s?", "WS*", "p", "u", "r", "s", "e">>,
      <<"w", "i", "r", "e", "w", "e", "e", "d">>,
      <<"m", "e", "d", "i", "c">>,
      <<"m", "a", "r", "s", "h", "m", "a", "l", "l", "o", "w">>,
      <<"s", "o", "r", "r", "e", "l">>,
      <<"d", "e", "a", "d", "n", "e", "t", "t", "l", "e">>,
      <<"c", "h", "i", "c", "k", "w", "e", "e", "d">>,
      <<"p", "i", "g", "w", "e", "e", "d">>,
      <<"a", "m", "a", "r", "a", "n", "t", "h">>,
      <<"b", "u", "r", "r">>,
      <<"c", "a", "l", "t", "r", "o", "p">>,
      <<"b", "i", "n", "d", "w", "e", "e", "d">>,
      <<"f", "l", "e", "a", "b", "a", "n", "e">>>>

CROP_PATTERNS ==
    <<<<"w", "h", "e", "a", "t">>,
      <<"b", "a", "r", "l", "e", "y">>,
      <<"c", "a", "n", "o", "l", "a">>,
      <<"l", "u", "p", "i", "n", "s?">>,
      <<"o", "a", "t", "s?">>,
      <<"t", "r", "i", "t", "i", "c", "a", "l", "e">>,
      <<"p", "a", "s", "t", "u", "r", "e">>,
      <<"f", "a", "l", "l", "o", "w">>,
      <<"c", "h", "i", "c", "k", "p", "e", "a">>,
      <<"l", "e", "n", "t", "i", "l", "s?">>,
      <<"f", "i", "e", "l", "d", "WS*", "p", "e", "a">>,
      <<"f", "a", "b", "a", "WS*", "b", "e", "a", "n">>,
      <<"v", "e", "t", "c", "h">>,
      <<"c", "e", "r", "e", "a", "l">>,
      <<"g", "r", "a", "i", "n", "WS*", "l", "e", "g", "u", "m", "e">>>>

\* ------------------------------------------------------------------------
\* Table blocks of the Docling JSON documents the model draws its inputs from.
\* has_id tells whether the block has an "id" key; page is -1 without a bbox.
\* ------------------------------------------------------------------------

\* no markdown and no rows
T1 ==
    [has_id |-> TRUE, id |-> <<"t", "0">>, markdown |-> <<>>,
     rows |-> <<>>,
     row_count |-> 0, column_count |-> 0, page |-> -1]

\* one short two-column row
T2 ==
    [has_id |-> TRUE, id |-> <<"t", "1">>, markdown |-> <<>>,
     rows |-> <<<<<<"a", "b">>, <<"c", "d">>>>>>,
     row_count |-> 1, column_count |-> 2, page |-> -1]

\* weed table with a header row and no id
T3 ==
    [has_id |-> FALSE, id |-> <<>>, markdown |-> <<>>,
     rows |-> <<<<<<"C", "r", "o", "p">>, <<"W", "e", "e", "d">>, <<"R", "a", "t", "e">>>>, <<<<"W", "h", "e", "a", "t">>, <<"A", "n", "n", "u", "a", "l", " ", "R", "y", "e", "g", "r", "a", "s", "s">>, <<"2", "0", "0", "m", "L", "/", "h", "a">>>>, <<<<"O", "a", "t", "s">>, <<"w", "i", "l", "d", " ", "r", "a", "d", "i", "s", "h">>, <<"1", " ", "L", "/", "h", "a">>>>, <<<<"O", "a", "t", "s">>, <<"d", "o", "c", "k">>, <<"5", "g", "/", "h", "a">>>>>>,
     row_count |-> 4, column_count |-> 3, page |-> 2]

\* four one-character rows
T4 ==
    [has_id |-> TRUE, id |-> <<"t", "3">>, markdown |-> <<>>,
     rows |-> <<<<<<"a">>>>, <<<<"b">>>>, <<<<"c">>>>, <<<<"d">>>>>>,
     row_count |-> 4, column_count |-> 1, page |-> -1]

\* markdown only
T5 ==
    [has_id |-> TRUE, id |-> <<"t", "4">>, markdown |-> <<"S", "t", "o", "r", "a", "g", "e", " ", "a", "n", "d", " ", "d", "i", "s", "p", "o", "s", "a", "l", "TAB", "i", "n", "f", "o">>,
     rows |-> <<>>,
     row_count |-> 0, column_count |-> 0, page |-> -1]

\* three-column table without keywords
T6 ==
    [has_id |-> TRUE, id |-> <<"t", "5">>, markdown |-> <<>>,
     rows |-> <<<<<<"x", "1">>, <<"y", "1">>, <<"z", "1">>>>, <<<<"x", "2">>, <<"y", "2">>, <<"z", "2">>>>, <<<<"x", "3">>, <<"y", "3">>, <<"z", "3">>>>, <<<<"x", "4">>, <<"y", "4">>, <<"z", "4">>>>>>,
     row_count |-> 4, column_count |-> 3, page |-> -1]

\* two-column table of five rows, id shared with the previous block
T7 ==
    [has_id |-> TRUE, id |-> <<"t", "5">>, markdown |-> <<>>,
     rows |-> <<<<<<"k", "1">>, <<"v", "1">>>>, <<<<"k", "2">>, <<"v", "2">>>>, <<<<"k", "3">>, <<"v", "3">>>>, <<<<"k", "4">>, <<"v", "4">>>>, <<<<"k", "5">>, <<"v", "5">>>>>>,
     row_count |-> 5, column_count |-> 2, page |-> -1]

\* six rows; a weed name and a rate in the sixth row only
T8 ==
    [has_id |-> TRUE, id |-> <<"t", "8">>, markdown |-> <<>>,
     rows |-> <<<<<<"r", "1">>, <<"n", "1">>>>, <<<<"r", "2">>, <<"n", "2">>>>, <<<<"r", "3">>, <<"n", "3">>>>, <<<<"r", "4">>, <<"n", "4">>>>, <<<<"r", "5">>, <<"n", "5">>>>, <<<<"D", "o", "c", "k">>, <<"5", " ", "g", "/", "h", "a">>>>>>,
     row_count |-> 6, column_count |-> 2, page |-> -1]

\* two rows, each with a weed name and a rate
T9 ==
    [has_id |-> TRUE, id |-> <<"t", "9">>, markdown |-> <<>>,
     rows |-> <<<<<<"D", "o", "c", "k", " ", "s", "e", "e", "d", "l", "i", "n", "g", "s">>, <<"2", "5", "0", " ", "m", "L", "/", "h", "a">>>>, <<<<"C", "l", "o", "v", "e", "r">>, <<"5", " ", "g", "/", "h", "a">>>>>>,
     row_count |-> 2, column_count |-> 2, page |-> -1]

Tables == <<T1, T2, T3, T4, T5, T6, T7, T8, T9>>

\* ------------------------------------------------------------------------
\* chunker.py
\* ------------------------------------------------------------------------

\* current_section = None, parent_section = None
NoSection == "None"

\* token limits the chunker is called with; 512 is the default
MaxChunkTokens == {3, 12, 512}

DefaultMaxChunkTokens == 512

\* " ".join(" ".join(str(cell) for cell in row) for row in rows)
RowsAsLine(rows) == Join(<<" ">>, [i \in DOMAIN rows |-> Join(<<" ">>, rows[i])])

\* " | ".join(str(cell) for cell in row), rows joined by newlines
RowsAsText(rows) == Join(<<"NL">>, [i \in DOMAIN rows |-> Join(<<" ", "|", " ">>, rows[i])])

classify_section(table) ==
    LET text == IF table.markdown # <<>> THEN table.markdown ELSE RowsAsLine(table.rows)
        low  == Lower(text)
        hits == {i \in DOMAIN SECTION_PATTERNS : SearchAny(SECTION_PATTERNS[i].alts, low)}
    IN  IF hits # {} THEN SECTION_PATTERNS[MinOf(hits)].name
        ELSE IF table.column_count >= 4 THEN "directions_for_use"
        ELSE IF table.column_count = 2 THEN "metadata"
        ELSE "general"

weed_indicators ==
    {<<"w", "e", "e", "d">>, <<"g", "r", "a", "s", "s">>, <<"t", "h", "i", "s", "t", "l", "e">>,
     <<"d", "o", "c", "k">>, <<"c", "l", "o", "v", "e", "r">>,
     <<"r", "y", "e", "g", "r", "a", "s", "s">>}

\* (mutation) every row is looked at, not the first five only
is_weed_table_all_rows(table) ==
    LET rows == table.rows
    IN  /\ Len(rows) >= 3
        /\ \E i \in 1..Len(rows) :
              /\ rows[i] # <<>>
              /\ \/ \E ind \in weed_indicators : Contains(Lower(rows[i][1]), ind)
                 \/ \E j \in DOMAIN rows[i] : SearchAny(RATE_PATTERN, Lower(rows[i][j]))

is_weed_table(table) ==
    LET rows == table.rows
    IN  /\ Len(rows) >= 3
        /\ \E i \in 1..Min2(5, Len(rows)) :
              /\ rows[i] # <<>>
              /\ \/ \E ind \in weed_indicators : Contains(Lower(rows[i][1]), ind)
                 \/ \E j \in DOMAIN rows[i] : SearchAny(RATE_PATTERN, Lower(rows[i][j]))

\* The values below depend on the block alone; they are computed once per
\* block of Tables and looked up afterwards.
TableIndex(table) == CHOOSE i \in DOMAIN Tables : Tables[i] = table

SectionMemo == [i \in DOMAIN Tables |-> classify_section(Tables[i])]

SectionOf(table) == SectionMemo[TableIndex(table)]

WeedTableMemo == [i \in DOMAIN Tables |-> is_weed_table(Tables[i])]

IsWeedTable(table) == WeedTableMemo[TableIndex(table)]

\* table.get("id", f"table-{sequence}")
TableId(table, seq) ==
    IF table.has_id THEN table.id ELSE <<"t", "a", "b", "l", "e", "-">> \o Str(seq)

\* (mutation) the chunk type is decided on current_section
TypingSectionCarried(section, section_now) == section_now

\* the label the chunk type is decided on: section, the block's own, and
\* not current_section
TypingSection(section, section_now) == section

ChunkType(table, section) ==
    IF IsWeedTable(table) THEN "weed_table"
    ELSE IF section = "directions_for_use" THEN "directions"
    ELSE IF section = "metadata" \/ table.column_count <= 2 THEN "metadata"
    ELSE "table"

Headers(table) ==
    IF table.rows # <<>> /\ table.column_count >= 3 THEN table.rows[1] ELSE <<>>

RenderText(table) ==
    IF table.markdown # <<>> THEN table.markdown ELSE RowsAsText(table.rows)

TextMemo ==
    [i \in DOMAIN Tables |->
        [text |-> RenderText(Tables[i]),
         words |-> WordCount(RenderText(Tables[i])),
         strip_len |-> StripLen(RenderText(Tables[i]))]]

\* text
TableText(table) == TextMemo[TableIndex(table)].text

\* estimated_tokens = len(text.split())
EstimatedTokens(table) == TextMemo[TableIndex(table)].words

\* (mutation) the sequence number is left out of the hashed string
ChunkHashNoSequence(product_number, table_id, seq) ==
    <<"md5(">> \o product_number \o <<"-">> \o table_id \o <<")">>

\* md5(f"{product_number}-{table_id}-{sequence}").hexdigest()[:8], taken as
\* collision-free: the digest is written as the hashed string between the
\* marks "md5(" and ")"
ChunkHash(product_number, table_id, seq) ==
    <<"md5(">> \o product_number \o <<"-">> \o table_id \o <<"-">> \o Str(seq) \o <<")">>

\* (mutation) the hash is taken again for every sub-chunk, from its own
\* sequence number
ChunkIdHashPerPart(product_number, table_id, part, seq) ==
    product_number \o <<"-">> \o table_id
        \o (IF part >= 0 THEN <<"-", "p", "a", "r", "t">> \o Str(part) ELSE <<>>)
        \o <<"-">> \o ChunkHash(product_number, table_id, seq + Max2(part, 0))

\* f"{product_number}-{table_id}-{chunk_hash}" and, for part >= 0,
\* f"{product_number}-{table_id}-part{part}-{chunk_hash}"
ChunkId(product_number, table_id, part, seq) ==
    product_number \o <<"-">> \o table_id
        \o (IF part >= 0 THEN <<"-", "p", "a", "r", "t">> \o Str(part) ELSE <<>>)
        \o <<"-">> \o ChunkHash(product_number, table_id, seq)

\* whether the block is split into sub-chunks
IsLarge(table, max_chunk_tokens) ==
    EstimatedTokens(table) > max_chunk_tokens /\ Len(table.rows) > 3

DataRows(table) == IF Headers(table) # <<>> THEN Tail(table.rows) ELSE table.rows

\* ceil(a / b), b > 0
CeilDiv(a, b) == (a + b - 1) \div b

\* (mutation) the row count per sub-group is rounded up
RowsPerChunkCeil(table, max_chunk_tokens) ==
    CeilDiv(Len(DataRows(table)), CeilDiv(EstimatedTokens(table), max_chunk_tokens))

\* rows_per_chunk = max(1, len(data_rows) // ((estimated_tokens // max_chunk_tokens) + 1))
RowsPerChunk(table, max_chunk_tokens) ==
    Max2(1, Len(DataRows(table))
              \div ((EstimatedTokens(table) \div max_chunk_tokens) + 1))

\* len(range(0, len(data_rows), rows_per_chunk))
PartCount(table, max_chunk_tokens) ==
    LET rpc == RowsPerChunk(table, max_chunk_tokens)
    IN  (Len(DataRows(table)) + rpc - 1) \div rpc

\* data_rows[i:i + rows_per_chunk] for i = part * rows_per_chunk
SubRows(data_rows, part, rpc) ==
    SubSeq(data_rows, part * rpc + 1, Min2((part + 1) * rpc, Len(data_rows)))

\* (mutation) the header row is left out of the sub-chunk text
SubTextNoHeader(table, sub_rows) == RowsAsText(sub_rows)

SubText(table, sub_rows) ==
    IF Headers(table) # <<>>
    THEN Join(<<" ", "|", " ">>, table.rows[1]) \o <<"NL">> \o RowsAsText(sub_rows)
    ELSE RowsAsText(sub_rows)

\* (mutation) every sub-chunk of a table keeps the table's sequence number
SubSequenceOrderShared(seq, part) == seq

\* the sequence_order of sub-chunk number part of a table that starts at seq:
\* sequence is incremented after every yield
SubSequenceOrder(seq, part) == seq + part

\* the blocks the loop skips without a chunk
IsEmptyBlock(table) == table.markdown = <<>> /\ table.rows = <<>>

IsShortBlock(table) == TextMemo[TableIndex(table)].strip_len < 20

\* (mutation) the label of a block is kept only if the block is long enough
\* to be emitted
SectionAfterUnlessShort(section_before, table) ==
    IF SectionOf(table) # "general" /\ ~IsShortBlock(table)
    THEN SectionOf(table) ELSE section_before

\* current_section after the block has been classified
SectionAfter(section_before, table) ==
    IF SectionOf(table) # "general" THEN SectionOf(table) ELSE section_before

\* The chunks one iteration of the loop yields for a block that is not skipped.
ChunksOfTable(table, seq, section_now, product_number, source_file, max_chunk_tokens) ==
    LET table_id   == TableId(table, seq)
        chunk_type == ChunkType(table, TypingSection(SectionOf(table), section_now))
        common(id, text, order, row_count) ==
            [chunk_id |-> id, text |-> text, chunk_type |-> chunk_type,
             sequence_order |-> order, source_file |-> source_file,
             product_number |-> product_number, parent_section |-> section_now,
             table_id |-> table_id, row_count |-> row_count,
             column_count |-> table.column_count, headers |-> Headers(table),
             page_number |-> table.page]
    IN  IF IsLarge(table, max_chunk_tokens)
        THEN LET rpc == RowsPerChunk(table, max_chunk_tokens)
             IN  [part0 \in 1..PartCount(table, max_chunk_tokens) |->
                    LET sub_rows == SubRows(DataRows(table), part0 - 1, rpc)
                    IN  common(ChunkId(product_number, table_id, part0 - 1, seq),
                               SubText(table, sub_rows),
                               SubSequenceOrder(seq, part0 - 1),
                               Len(sub_rows))]
        ELSE <<common(ChunkId(product_number, table_id, -1, seq), TableText(table),
                      seq, table.row_count)>>

\* One iteration of "for table in tables" from the loop state
\* st = [sequence, current_section]: the new loop state and the chunks yielded.
ChunkStep(st, table, product_number, source_file, max_chunk_tokens) ==
    IF IsEmptyBlock(table) THEN [st |-> st, out |-> <<>>]
    ELSE LET section_now == SectionAfter(st.current_section, table)
         IN  IF IsShortBlock(table)
             THEN [st  |-> [sequence |-> st.sequence, current_section |-> section_now],
                   out |-> <<>>]
             ELSE LET out == ChunksOfTable(table, st.sequence, section_now, product_number,
                                           source_file, max_chunk_tokens)
                  IN  [st  |-> [sequence |-> st.sequence + Len(out),
                                current_section |-> section_now],
                       out |-> out]

\* (mutation) sequence and current_section kept at module level: a call
\* starts from what the previous call left
StaleLoopState == [sequence |-> sequence, current_section |-> current_section]

\* the loop state a call of chunk_docling_json starts from
FreshLoopState == [sequence |-> 0, current_section |-> NoSection]

\* list(chunk_docling_json(path, max_chunk_tokens)) for the tables of a document
RECURSIVE ChunkFrom(_, _, _, _, _)
ChunkFrom(st, tables, product_number, source_file, max_chunk_tokens) ==
    IF tables = <<>> THEN <<>>
    ELSE LET r == ChunkStep(st, Head(tables), product_number, source_file, max_chunk_tokens)
         IN  r.out \o ChunkFrom(r.st, Tail(tables), product_number, source_file,
                                max_chunk_tokens)

\* json_path.stem.replace("ELBL", "").replace(".docling", "")
ProductNumber(name) ==
    LET stem == SubSeq(name, 1, Len(name) - 5)
    IN  Replace(Replace(stem, <<"E", "L", "B", "L">>, <<>>),
                <<".", "d", "o", "c", "l", "i", "n", "g">>, <<>>)

\* ------------------------------------------------------------------------
\* The graph store (Neo4j).  Nodes are identified by label and key property;
\* nodes and relationships are bags, so that a duplicate can be told from a
\* merge.  props holds the other properties of a node.
\* ------------------------------------------------------------------------

Node(label, key) == [label |-> label, key |-> key]

Edge(type, src, dst) == [type |-> type, src |-> src, dst |-> dst]

EmptyStore == [nodes |-> EmptyBag, props |-> <<>>, edges |-> EmptyBag]

\* the nodes and relationships of a store, without the node properties
Graph(s) == [nodes |-> s.nodes, edges |-> s.edges]

NodesOf(s, label) == {n \in BagToSet(s.nodes) : n.label = label}

EdgesOf(s, type) == {e \in BagToSet(s.edges) : e.type = type}

Copies(bag, x, k) == IF k <= 0 THEN bag ELSE bag (+) [y \in {x} |-> k]

\* (mutation) CREATE instead of MERGE: a node is added whether or not one
\* with this label and key exists
CreateNode(s, n, p) ==
    [s EXCEPT !.nodes = Copies(s.nodes, n, 1), !.props = (n :> p) @@ s.props]

\* MERGE (n:Label {key: ...}) SET n.p = ...
MergeNode(s, n, p) ==
    IF BagIn(n, s.nodes)
    THEN [s EXCEPT !.props = (n :> (p @@ s.props[n])) @@ s.props]
    ELSE [s EXCEPT !.nodes = Copies(s.nodes, n, 1), !.props = (n :> p) @@ s.props]

\* (mutation) CREATE instead of MERGE: a relationship is added for every
\* matched pair whether or not one exists
CreateEdge(s, type, src, dst) ==
    [s EXCEPT !.edges = Copies(s.edges, Edge(type, src, dst),
                               CopiesIn(src, s.nodes) * CopiesIn(dst, s.nodes))]

\* MATCH (a ...) MATCH (b ...) MERGE (a)-[:TYPE]->(b): for every matched pair
\* of nodes a relationship is created unless the pair has one; nothing
\* happens when an end point is missing
MergeEdge(s, type, src, dst) ==
    LET e == Edge(type, src, dst)
    IN  [s EXCEPT !.edges = Copies(s.edges, e,
                                   CopiesIn(src, s.nodes) * CopiesIn(dst, s.nodes)
                                     - CopiesIn(e, s.edges))]

\* MergeEdge to every node of a set
RECURSIVE MergeEdgesTo(_, _, _, _)
MergeEdgesTo(s, type, src, targets) ==
    IF targets = {} THEN s
    ELSE LET t == CHOOSE x \in targets : TRUE
         IN  MergeEdgesTo(MergeEdge(s, type, src, t), type, src, targets \ {t})

\* the number of rows MATCH (a) MATCH (b in targets) yields
RECURSIVE RowCount(_, _, _)
RowCount(s, src, targets) ==
    IF targets = {} THEN 0
    ELSE LET t == CHOOSE x \in targets : TRUE
         IN  CopiesIn(src, s.nodes) * CopiesIn(t, s.nodes) + RowCount(s, src, targets \ {t})

\* ------------------------------------------------------------------------
\* Entities the entity loader (loader.py) may have put into the store before
\* chunks are loaded: Weed and Crop nodes keyed by their normalized name,
\* with the name as written as display_name, and a Herbicide node.
\* ------------------------------------------------------------------------

EntityStore ==
    LET weed1 == Node("Weed", <<"a", "n", "n", "u", "a", "l", " ", "r", "y", "e", "g", "r", "a", "s", "s">>)
        weed2 == Node("Weed", <<"w", "i", "l", "d", " ", "r", "a", "d", "i", "s", "h">>)
        crop1 == Node("Crop", <<"w", "h", "e", "a", "t">>)
        herb1 == Node("Herbicide", <<"1">>)
    IN  [nodes |-> SetToBag({weed1, weed2, crop1, herb1}),
         props |-> (weed1 :> [display_name |-> <<"A", "n", "n", "u", "a", "l", " ", "R", "y", "e", "g", "r", "a", "s", "s">>])
                   @@ (weed2 :> [display_name |-> <<"W", "i", "l", "d", " ", "R", "a", "d", "i", "s", "h">>])
                   @@ (crop1 :> [display_name |-> <<"W", "h", "e", "a", "t">>])
                   @@ (herb1 :> [product_name |-> <<"H", "1">>]),
         edges |-> EmptyBag]

\* schema.py declares no uniqueness constraint for Document: a store in which
\* two loaders have each created the Document node of product 1
DuplicateStore ==
    [EntityStore EXCEPT !.nodes = Copies(@, Node("Document", <<"1">>), 2),
                        !.props = (Node("Document", <<"1">>) :>
                                      [source_file |-> <<"x">>, chunk_count |-> 0,
                                       loaded_at |-> 0]) @@ @]

InitialStores == {EmptyStore, EntityStore, DuplicateStore}

\* ------------------------------------------------------------------------
\* The *.docling.json files of the directory, sorted by name
\* ------------------------------------------------------------------------

FileName(digit) ==
    <<"E", "L", "B", "L", digit, ".", "d", "o", "c", "l", "i", "n", "g", ".", "j", "s", "o", "n">>

Files ==
    <<[name |-> FileName("1"), valid_json |-> TRUE,  tables |-> <<T3, T2, T6, T5>>],
      [name |-> FileName("2"), valid_json |-> FALSE, tables |-> <<>>],
      [name |-> FileName("3"), valid_json |-> TRUE,  tables |-> <<T1, T4>>],
      [name |-> FileName("4"), valid_json |-> TRUE,  tables |-> <<T7, T3>>]>>

\* ------------------------------------------------------------------------
\* chunk_loader.py
\* ------------------------------------------------------------------------

\* the key of one pattern: match.group().replace(" ", "").lower()
MentionKey(pattern, text_lower) ==
    Lower(Replace(MatchGroup(pattern, text_lower), <<" ">>, <<>>))

\* (mutation) the patterns are searched in the text as written
extract_entity_mentions_as_written(text) ==
    [weeds |-> {MentionKey(WEED_PATTERNS[i], text) :
                  i \in {j \in DOMAIN WEED_PATTERNS : Search(WEED_PATTERNS[j], text)}},
     crops |-> {MentionKey(CROP_PATTERNS[i], text) :
                  i \in {j \in DOMAIN CROP_PATTERNS : Search(CROP_PATTERNS[j], text)}}]

\* extract_entity_mentions(text): the two lists, as sets
extract_entity_mentions(text) ==
    LET text_lower == Lower(text)
    IN  [weeds |-> {MentionKey(WEED_PATTERNS[i], text_lower) :
                      i \in {j \in DOMAIN WEED_PATTERNS : Search(WEED_PATTERNS[j], text_lower)}},
         crops |-> {MentionKey(CROP_PATTERNS[i], text_lower) :
                      i \in {j \in DOMAIN CROP_PATTERNS : Search(CROP_PATTERNS[j], text_lower)}}]

SectionChars ==
    ("product_identity" :> <<"p", "r", "o", "d", "u", "c", "t", "_", "i", "d", "e", "n", "t", "i", "t", "y">>)
    @@ ("claims" :> <<"c", "l", "a", "i", "m", "s">>)
    @@ ("resistance_warning" :> <<"r", "e", "s", "i", "s", "t", "a", "n", "c", "e", "_", "w", "a", "r", "n", "i", "n", "g">>)
    @@ ("directions_for_use" :> <<"d", "i", "r", "e", "c", "t", "i", "o", "n", "s", "_", "f", "o", "r", "_", "u", "s", "e">>)
    @@ ("weed_table" :> <<"w", "e", "e", "d", "_", "t", "a", "b", "l", "e">>)
    @@ ("withholding_period" :> <<"w", "i", "t", "h", "h", "o", "l", "d", "i", "n", "g", "_", "p", "e", "r", "i", "o", "d">>)
    @@ ("compatibility" :> <<"c", "o", "m", "p", "a", "t", "i", "b", "i", "l", "i", "t", "y">>)
    @@ ("safety" :> <<"s", "a", "f", "e", "t", "y">>)
    @@ ("storage" :> <<"s", "t", "o", "r", "a", "g", "e">>)
    @@ ("metadata" :> <<"m", "e", "t", "a", "d", "a", "t", "a">>)

\* Chunk.contextualize()
contextualize(chunk) ==
    Join(<<" ">>,
         (IF chunk.product_number # <<>>
          THEN <<<<"[", "P", "r", "o", "d", "u", "c", "t", ":", " ">> \o chunk.product_number \o <<"]">>>>
          ELSE <<>>)
         \o (IF chunk.parent_section # NoSection
             THEN <<<<"[", "S", "e", "c", "t", "i", "o", "n", ":", " ">>
                      \o SectionChars[chunk.parent_section] \o <<"]">>>>
             ELSE <<>>)
         \o (IF chunk.chunk_type = "weed_table"
             THEN <<<<"[", "W", "e", "e", "d", " ", "C", "o", "n", "t", "r", "o", "l", " ", "T", "a", "b", "l", "e", "]">>>>
             ELSE IF chunk.chunk_type = "directions"
             THEN <<<<"[", "D", "i", "r", "e", "c", "t", "i", "o", "n", "s", " ", "f", "o", "r", " ", "U", "s", "e", "]">>>>
             ELSE <<>>)
         \o <<chunk.text>>)

\* embed_batch: the embedding model is a function of the text; the vector
\* stands for the text it was computed from
Embedding(text) == <<"vec(">> \o text \o <<")">>

\* list(chunk_docling_json(docling_path)) for each file of Files, with the
\* entity mentions of every chunk
FileChunks ==
    [f \in DOMAIN Files |->
        ChunkFrom(FreshLoopState, Files[f].tables, ProductNumber(Files[f].name),
                  Files[f].name, DefaultMaxChunkTokens)]

FileMentions ==
    [f \in DOMAIN Files |->
        LET cs == FileChunks[f]
        IN  [k \in DOMAIN cs |-> extract_entity_mentions(cs[k].text)]]

DocumentNode(product_number) == Node("Document", product_number)

ChunkNode(chunk) == Node("Chunk", chunk.chunk_id)

\* 1. MERGE (d:Document {product_number}) SET d.source_file, d.chunk_count,
\*    d.loaded_at; cs is the list chunks
WriteDocument(s, cs, source_file, now) ==
    MergeNode(s, DocumentNode(cs[1].product_number),
              [source_file |-> source_file, chunk_count |-> Len(cs), loaded_at |-> now])

\* (mutation) MERGE (h:Herbicide {product_number}) in place of the MATCH
WriteHasLabelMerging(s, cs) ==
    MergeEdge(MergeNode(s, Node("Herbicide", cs[1].product_number), <<>>),
              "HAS_LABEL", Node("Herbicide", cs[1].product_number),
              DocumentNode(cs[1].product_number))

\* 2. MATCH (d:Document) MATCH (h:Herbicide) MERGE (h)-[:HAS_LABEL]->(d)
WriteHasLabel(s, cs) ==
    MergeEdge(s, "HAS_LABEL", Node("Herbicide", cs[1].product_number),
              DocumentNode(cs[1].product_number))

\* 3. MERGE (c:Chunk {chunk_id}) SET ... WITH c MATCH (d:Document)
\*    MERGE (d)-[:CONTAINS_CHUNK]->(c)
WriteChunk(s, cs, i) ==
    LET chunk == cs[i]
        merged == MergeNode(s, ChunkNode(chunk),
                            [text |-> chunk.text, chunk_type |-> chunk.chunk_type,
                             sequence_order |-> chunk.sequence_order,
                             parent_section |-> chunk.parent_section,
                             table_id |-> chunk.table_id, row_count |-> chunk.row_count,
                             column_count |-> chunk.column_count,
                             product_number |-> cs[1].product_number,
                             embedding |-> Embedding(contextualize(chunk))])
    IN  MergeEdge(merged, "CONTAINS_CHUNK", DocumentNode(cs[1].product_number),
                  ChunkNode(chunk))

\* (mutation) every chunk is linked from the first chunk of the document
FirstChunkId(cs, i) == cs[1].chunk_id

\* prev_chunk_id = chunks[i - 1].chunk_id
PrevChunkId(cs, i) == cs[i - 1].chunk_id

\* (mutation) the relationship points from the current chunk back to the previous
WriteNextReversed(s, cs, i) ==
    MergeEdge(s, "NEXT", ChunkNode(cs[i]), Node("Chunk", PrevChunkId(cs, i)))

\* 4. MATCH (prev:Chunk) MATCH (curr:Chunk) MERGE (prev)-[:NEXT]->(curr)
WriteNext(s, cs, i) ==
    MergeEdge(s, "NEXT", Node("Chunk", PrevChunkId(cs, i)), ChunkNode(cs[i]))

\* MATCH (w:Weed) WHERE toLower(w.common_name) CONTAINS $weed_pattern
\*                   OR toLower(w.display_name) CONTAINS $weed_pattern
MatchingWeeds(s, pattern) ==
    {w \in NodesOf(s, "Weed") :
        \/ Contains(Lower(w.key), pattern)
        \/ Contains(Lower(s.props[w].display_name), pattern)}

\* MATCH (cr:Crop) WHERE toLower(cr.name) CONTAINS $crop_pattern
\*                    OR toLower(cr.display_name) CONTAINS $crop_pattern
MatchingCrops(s, pattern) ==
    {c \in NodesOf(s, "Crop") :
        \/ Contains(Lower(c.key), pattern)
        \/ Contains(Lower(s.props[c].display_name), pattern)}

\* 5. MATCH (c:Chunk) MATCH (w:Weed) WHERE ... MERGE (c)-[:MENTIONS]->(w)
WriteWeedMentions(s, chunk, weed) ==
    MergeEdgesTo(s, "MENTIONS", ChunkNode(chunk), MatchingWeeds(s, weed))

WriteCropMentions(s, chunk, crop) ==
    MergeEdgesTo(s, "MENTIONS", ChunkNode(chunk), MatchingCrops(s, crop))

\* RETURN count(*) AS linked
LinkedWeeds(s, chunk, weed) == RowCount(s, ChunkNode(chunk), MatchingWeeds(s, weed))

LinkedCrops(s, chunk, crop) == RowCount(s, ChunkNode(chunk), MatchingCrops(s, crop))

\* load_chunks_from_docling without interruption: steps 3 to 5 for the
\* chunks i.. of the list cs with the mentions ms
RECURSIVE WriteAllWeeds(_, _, _)
WriteAllWeeds(s, chunk, weeds) ==
    IF weeds = {} THEN s
    ELSE LET w == CHOOSE x \in weeds : TRUE
         IN  WriteAllWeeds(WriteWeedMentions(s, chunk, w), chunk, weeds \ {w})

RECURSIVE WriteAllCrops(_, _, _)
WriteAllCrops(s, chunk, crops) ==
    IF crops = {} THEN s
    ELSE LET c == CHOOSE x \in crops : TRUE
         IN  WriteAllCrops(WriteCropMentions(s, chunk, c), chunk, crops \ {c})

RECURSIVE LoadChunksFrom(_, _, _, _, _)
LoadChunksFrom(s, cs, ms, i, link) ==
    IF i > Len(cs) THEN s
    ELSE LET s1 == WriteChunk(s, cs, i)
             s2 == IF i > 1 THEN WriteNext(s1, cs, i) ELSE s1
             s3 == IF link
                   THEN WriteAllCrops(WriteAllWeeds(s2, cs[i], ms[i].weeds), cs[i], ms[i].crops)
                   ELSE s2
         IN  LoadChunksFrom(s3, cs, ms, i + 1, link)

\* the store load_chunks_from_docling leaves when it runs to completion on
\* file f from store s
FullLoad(s, f, link, now) ==
    LET cs == FileChunks[f]
    IN  IF cs = <<>> THEN s
        ELSE LoadChunksFrom(WriteHasLabel(WriteDocument(s, cs, Files[f].name, now), cs),
                            cs, FileMentions[f], 1, link)

\* ------------------------------------------------------------------------
\* load_chunks_directory and load_chunks_from_docling as a process: one
\* action per session.run
\* ------------------------------------------------------------------------

\* the file being loaded
l_file == d_files[d_i]

\* the pcs at which the next step is a session.run
WritePcs == {"document", "herbicide", "chunk", "next", "link"}

\* (mutation) the early return carries no mark
UnmarkedStats == [chunks |-> 0, next_rels |-> 0, mentions_weeds |-> 0, mentions_crops |-> 0]

NoChunksStats ==
    [chunks |-> 0, next_rels |-> 0, mentions_weeds |-> 0, mentions_crops |-> 0,
     error |-> "No chunks generated"]

\* (mutation) the exception ends the loop over the files
AbortOnException(i, n) == n + 1

\* the loop index after the except clause: the loop goes on with the next file
AfterException(i, n) == i + 1

\* where the process goes when the loop index becomes i
PcForFile(i) == IF i > Len(d_files) THEN "dir_return" ELSE "begin"

\* no call of the loader has been made
LoaderAtRest ==
    /\ d_runs = 0
    /\ d_files = <<>>
    /\ d_i = 0
    /\ link_entities = TRUE
    /\ total_stats = [files_processed |-> 0, total_chunks |-> 0, total_next_rels |-> 0,
                      total_mentions |-> 0, errors |-> <<>>]
    /\ l_pc = "idle"
    /\ chunks = <<>>
    /\ mentions = <<>>
    /\ l_i = 0
    /\ l_weeds = {}
    /\ l_crops = {}
    /\ stats = NoChunksStats
    /\ failures = 0
    /\ h_attempted = <<>>
    /\ h_raised = <<>>
    /\ h_start = EmptyStore
    /\ h_repeat = FALSE
    /\ h_ep_store = EmptyStore
    /\ h_ep_file = 0
    /\ h_ep_link = TRUE
    /\ h_ep_cuts = 0
    /\ h_done_file = 0
    /\ h_done_link = TRUE
    /\ h_writes = 0
    /\ h_cut_writes = 0

\* load_chunks_directory(docling_dir, link_entities=link, limit=limit);
\* limit 0 stands for no limit
DirCall(limit, link) ==
    /\ l_pc = "idle"
    /\ q_pc = "idle"
    /\ UNCHANGED <<chunker_vars, query_vars, runs_vars, ingestion_vars, lookup_vars>>
    /\ d_runs < MaxDirRuns
    /\ d_runs' = d_runs + 1
    /\ d_files' = IF limit # 0 THEN [k \in 1..limit |-> k] ELSE [k \in DOMAIN Files |-> k]
    /\ d_i' = 1
    /\ link_entities' = link
    /\ total_stats' = [files_processed |-> 0, total_chunks |-> 0, total_next_rels |-> 0,
                       total_mentions |-> 0, errors |-> <<>>]
    /\ l_pc' = "begin"
    /\ h_attempted' = <<>>
    /\ h_raised' = <<>>
    /\ UNCHANGED <<store, chunks, mentions, l_i, l_weeds, l_crops, stats, failures, h_start, h_repeat,
                   h_ep_store, h_ep_file, h_ep_link, h_ep_cuts, h_done_file, h_done_link, h_writes,
                   h_cut_writes>>

\* json.load raises on a malformed file; the except clause of the directory
\* loop records it
RaiseParse ==
    /\ l_pc = "begin"
    /\ UNCHANGED <<chunker_vars, query_vars, runs_vars, ingestion_vars, lookup_vars>>
    /\ ~Files[l_file].valid_json
    /\ h_attempted' = Append(h_attempted, l_file)
    /\ h_raised' = Append(h_raised, l_file)
    /\ total_stats' = [total_stats EXCEPT !.errors =
                          Append(@, [file |-> Files[l_file].name, error |-> "JSONDecodeError"])]
    /\ d_i' = AfterException(d_i, Len(d_files))
    /\ l_pc' = PcForFile(d_i')
    /\ UNCHANGED <<store, d_runs, d_files, link_entities, chunks, mentions, l_i, l_weeds, l_crops, stats,
                   failures, h_start, h_repeat, h_ep_store, h_ep_file, h_ep_link, h_ep_cuts,
                   h_done_file, h_done_link, h_writes, h_cut_writes>>

\* the document yields no chunk: the early return
LoadNoChunks ==
    /\ l_pc = "begin"
    /\ UNCHANGED <<chunker_vars, query_vars, runs_vars, ingestion_vars, lookup_vars>>
    /\ Files[l_file].valid_json
    /\ chunks' = FileChunks[l_file]
    /\ chunks' = <<>>
    /\ mentions' = <<>>
    /\ h_attempted' = Append(h_attempted, l_file)
    /\ stats' = NoChunksStats
    /\ l_pc' = "return"
    /\ UNCHANGED <<store, d_runs, d_files, d_i, link_entities, total_stats, l_i, l_weeds,
                   l_crops, failures, h_raised, h_start, h_repeat, h_ep_store, h_ep_file,
                   h_ep_link, h_ep_cuts, h_done_file, h_done_link, h_writes, h_cut_writes>>

\* chunks, stats and embeddings are computed; the session is opened
LoadBegin ==
    /\ l_pc = "begin"
    /\ UNCHANGED <<chunker_vars, query_vars, runs_vars, ingestion_vars, lookup_vars>>
    /\ Files[l_file].valid_json
    /\ chunks' = FileChunks[l_file]
    /\ chunks' # <<>>
    /\ mentions' = FileMentions[l_file]
    /\ h_attempted' = Append(h_attempted, l_file)
    /\ stats' = [product_number |-> chunks'[1].product_number,
                 chunks |-> Len(chunks'), next_rels |-> 0,
                 mentions_weeds |-> 0, mentions_crops |-> 0]
    /\ l_pc' = "document"
    /\ h_start' = store
    /\ h_repeat' = (h_done_file = l_file /\ h_done_link = link_entities)
    /\ h_writes' = 0
    /\ IF h_ep_file = l_file /\ h_ep_cuts > 0 /\ h_ep_link = link_entities
       THEN UNCHANGED <<h_ep_store, h_ep_file, h_ep_link, h_ep_cuts>>
       ELSE /\ h_ep_store' = store
            /\ h_ep_file' = l_file
            /\ h_ep_link' = link_entities
            /\ h_ep_cuts' = 0
    /\ UNCHANGED <<store, d_runs, d_files, d_i, link_entities, total_stats, l_i, l_weeds,
                   l_crops, failures, h_raised, h_done_file, h_done_link, h_cut_writes>>

\* 1. the Document node
MergeDocument ==
    /\ l_pc = "document"
    /\ UNCHANGED <<chunker_vars, query_vars, runs_vars, ingestion_vars, lookup_vars>>
    /\ store' = WriteDocument(store, chunks, Files[l_file].name, d_runs)
    /\ l_pc' = "herbicide"
    /\ h_writes' = h_writes + 1
    /\ UNCHANGED <<d_runs, d_files, d_i, link_entities, total_stats, chunks, mentions, l_i, l_weeds, l_crops,
                   stats, failures, h_attempted, h_raised, h_start, h_repeat, h_ep_store,
                   h_ep_file, h_ep_link, h_ep_cuts, h_done_file, h_done_link, h_cut_writes>>

\* 2. the HAS_LABEL relationship
LinkHerbicide ==
    /\ l_pc = "herbicide"
    /\ UNCHANGED <<chunker_vars, query_vars, runs_vars, ingestion_vars, lookup_vars>>
    /\ store' = WriteHasLabel(store, chunks)
    /\ l_pc' = "chunk"
    /\ l_i' = 1
    /\ h_writes' = h_writes + 1
    /\ UNCHANGED <<d_runs, d_files, d_i, link_entities, total_stats, chunks, mentions,
                   l_weeds, l_crops, stats, failures, h_attempted, h_raised, h_start, h_repeat, h_ep_store,
                   h_ep_file, h_ep_link, h_ep_cuts, h_done_file, h_done_link, h_cut_writes>>

\* The mentions still to link for chunk i, and where the loop goes: to step 5
\* of chunk i, to the next chunk, or out of the loop.
WeedsToLink(i) == IF link_entities THEN mentions[i].weeds ELSE {}

CropsToLink(i) == IF link_entities THEN mentions[i].crops ELSE {}

PcAfter(i, weeds, crops) ==
    IF weeds # {} \/ crops # {} THEN "link"
    ELSE IF i < Len(chunks) THEN "chunk"
    ELSE "return"

IndexAfter(i, weeds, crops) ==
    IF weeds = {} /\ crops = {} /\ i < Len(chunks) THEN i + 1 ELSE i

\* 3. the Chunk node and its CONTAINS_CHUNK relationship
UpsertChunk ==
    /\ l_pc = "chunk"
    /\ UNCHANGED <<chunker_vars, query_vars, runs_vars, ingestion_vars, lookup_vars>>
    /\ store' = WriteChunk(store, chunks, l_i)
    /\ h_writes' = h_writes + 1
    /\ IF l_i > 1
       THEN /\ l_pc' = "next"
            /\ UNCHANGED <<l_i, l_weeds, l_crops>>
       ELSE /\ l_weeds' = WeedsToLink(l_i)
            /\ l_crops' = CropsToLink(l_i)
            /\ l_pc' = PcAfter(l_i, l_weeds', l_crops')
            /\ l_i' = IndexAfter(l_i, l_weeds', l_crops')
    /\ UNCHANGED <<d_runs, d_files, d_i, link_entities, total_stats, chunks, mentions, stats,
                   failures,
                   h_attempted, h_raised, h_start, h_repeat, h_ep_store, h_ep_file,
                   h_ep_link, h_ep_cuts, h_done_file, h_done_link, h_cut_writes>>

\* 4. the NEXT relationship from the previous chunk
LinkNext ==
    /\ l_pc = "next"
    /\ UNCHANGED <<chunker_vars, query_vars, runs_vars, ingestion_vars, lookup_vars>>
    /\ store' = WriteNext(store, chunks, l_i)
    /\ stats' = [stats EXCEPT !.next_rels = @ + 1]
    /\ h_writes' = h_writes + 1
    /\ l_weeds' = WeedsToLink(l_i)
    /\ l_crops' = CropsToLink(l_i)
    /\ l_pc' = PcAfter(l_i, l_weeds', l_crops')
    /\ l_i' = IndexAfter(l_i, l_weeds', l_crops')
    /\ UNCHANGED <<d_runs, d_files, d_i, link_entities, total_stats, chunks, mentions, failures,
                   h_attempted, h_raised, h_start, h_repeat, h_ep_store, h_ep_file,
                   h_ep_link, h_ep_cuts, h_done_file, h_done_link, h_cut_writes>>

\* 5. the MENTIONS relationships of one weed name; list(set(weeds)) is in no
\* particular order
LinkWeed ==
    /\ l_pc = "link"
    /\ UNCHANGED <<chunker_vars, query_vars, runs_vars, ingestion_vars, lookup_vars>>
    /\ \E weed \in l_weeds :
          /\ store' = WriteWeedMentions(store, chunks[l_i], weed)
          /\ stats' = [stats EXCEPT !.mentions_weeds = @ + LinkedWeeds(store, chunks[l_i], weed)]
          /\ l_weeds' = l_weeds \ {weed}
    /\ h_writes' = h_writes + 1
    /\ l_pc' = PcAfter(l_i, l_weeds', l_crops)
    /\ l_i' = IndexAfter(l_i, l_weeds', l_crops)
    /\ UNCHANGED <<d_runs, d_files, d_i, link_entities, total_stats, chunks, mentions, l_crops,
                   failures,
                   h_attempted, h_raised, h_start, h_repeat, h_ep_store, h_ep_file,
                   h_ep_link, h_ep_cuts, h_done_file, h_done_link, h_cut_writes>>

\* 5. the MENTIONS relationships of one crop name, after the weeds
LinkCrop ==
    /\ l_pc = "link"
    /\ UNCHANGED <<chunker_vars, query_vars, runs_vars, ingestion_vars, lookup_vars>>
    /\ l_weeds = {}
    /\ \E crop \in l_crops :
          /\ store' = WriteCropMentions(store, chunks[l_i], crop)
          /\ stats' = [stats EXCEPT !.mentions_crops = @ + LinkedCrops(store, chunks[l_i], crop)]
          /\ l_crops' = l_crops \ {crop}
    /\ h_writes' = h_writes + 1
    /\ l_pc' = PcAfter(l_i, l_weeds, l_crops')
    /\ l_i' = IndexAfter(l_i, l_weeds, l_crops')
    /\ UNCHANGED <<d_runs, d_files, d_i, link_entities, total_stats, chunks, mentions, l_weeds,
                   failures,
                   h_attempted, h_raised, h_start, h_repeat, h_ep_store, h_ep_file,
                   h_ep_link, h_ep_cuts, h_done_file, h_done_link, h_cut_writes>>

\* a session.run raises (the store is unreachable, the transaction fails):
\* the write does not happen and the except clause of the directory loop
\* records the file
RaiseStore ==
    /\ l_pc \in WritePcs
    /\ UNCHANGED <<chunker_vars, query_vars, runs_vars, ingestion_vars, lookup_vars>>
    /\ failures < MaxStoreFailures
    /\ failures' = failures + 1
    /\ h_raised' = Append(h_raised, l_file)
    /\ total_stats' = [total_stats EXCEPT !.errors =
                          Append(@, [file |-> Files[l_file].name, error |-> "ServiceUnavailable"])]
    /\ d_i' = AfterException(d_i, Len(d_files))
    /\ l_pc' = PcForFile(d_i')
    /\ h_ep_cuts' = h_ep_cuts + 1
    /\ h_cut_writes' = h_writes
    /\ h_done_file' = 0
    /\ UNCHANGED h_done_link
    /\ UNCHANGED <<store, d_runs, d_files, link_entities, chunks, mentions, l_i, l_weeds, l_crops, stats,
                   h_attempted, h_start, h_repeat, h_ep_store, h_ep_file, h_ep_link,
                   h_writes>>

\* load_chunks_from_docling returns stats; the directory loop adds them up
LoadReturn ==
    /\ l_pc = "return"
    /\ UNCHANGED <<chunker_vars, query_vars, runs_vars, ingestion_vars, lookup_vars>>
    /\ total_stats' = [total_stats EXCEPT
                          !.files_processed = @ + 1,
                          !.total_chunks = @ + stats.chunks,
                          !.total_next_rels = @ + stats.next_rels,
                          !.total_mentions = @ + stats.mentions_weeds + stats.mentions_crops]
    /\ d_i' = d_i + 1
    /\ l_pc' = PcForFile(d_i')
    /\ IF chunks # <<>>
       THEN h_done_file' = l_file /\ h_done_link' = link_entities /\ h_ep_cuts' = 0
       ELSE UNCHANGED <<h_done_file, h_done_link, h_ep_cuts>>
    /\ UNCHANGED <<store, d_runs, d_files, link_entities, chunks, mentions, l_i, l_weeds, l_crops, stats,
                   failures, h_attempted, h_raised, h_start, h_repeat, h_ep_store,
                   h_ep_file, h_ep_link, h_writes, h_cut_writes>>

\* load_chunks_directory returns total_stats
DirReturn ==
    /\ l_pc = "dir_return"
    /\ UNCHANGED <<chunker_vars, query_vars, runs_vars, ingestion_vars, lookup_vars>>
    /\ l_pc' = "idle"
    /\ UNCHANGED <<store, d_runs, d_files, d_i, link_entities, total_stats, chunks, mentions, l_i, l_weeds,
                   l_crops, stats, failures, h_attempted, h_raised, h_start, h_repeat,
                   h_ep_store, h_ep_file, h_ep_link, h_ep_cuts, h_done_file, h_done_link, h_writes,
                   h_cut_writes>>

\* ------------------------------------------------------------------------
\* Two calls of load_chunks_from_docling at the same time on one store.
\* Every session.run is an auto-commit transaction; the transactions of the
\* two calls take place one at a time, in any order.
\* ------------------------------------------------------------------------

Runs == {1, 2}

\* no such pair of calls is under way
RunsIdle ==
    /\ shared = EmptyStore
    /\ r_file = [r \in Runs |-> 1]
    /\ r_link = [r \in Runs |-> TRUE]
    /\ r_pc = [r \in Runs |-> "idle"]
    /\ r_chunks = [r \in Runs |-> <<>>]
    /\ r_mentions = [r \in Runs |-> <<>>]
    /\ r_i = [r \in Runs |-> 0]
    /\ r_weeds = [r \in Runs |-> {}]
    /\ r_crops = [r \in Runs |-> {}]
    /\ r_init = EmptyStore
    /\ r_turns = <<>>

\* history: call r writes
TurnOf(r) ==
    IF Len(r_turns) = MaxTurns \/ (r_turns # <<>> /\ r_turns[Len(r_turns)] = r)
    THEN r_turns
    ELSE Append(r_turns, r)

\* (mutation) a call works on the store as it was before the two calls
StoreAtStart(r) == r_init

\* session.run executes against the store as it is when the statement runs
StoreSeenBy(r) == shared

RunWeedsToLink(r, i) == IF r_link[r] THEN r_mentions[r][i].weeds ELSE {}

RunCropsToLink(r, i) == IF r_link[r] THEN r_mentions[r][i].crops ELSE {}

RunPcAfter(r, i, weeds, crops) ==
    IF weeds # {} \/ crops # {} THEN "link"
    ELSE IF i < Len(r_chunks[r]) THEN "chunk"
    ELSE "done"

RunIndexAfter(r, i, weeds, crops) ==
    IF weeds = {} /\ crops = {} /\ i < Len(r_chunks[r]) THEN i + 1 ELSE i

\* chunks and embeddings are computed; json.load raises on a malformed file
\* and a document without chunks returns early: both end the call
RunBegin(r) ==
    /\ r_pc[r] = "begin"
    /\ r_chunks' = [r_chunks EXCEPT ![r] = IF Files[r_file[r]].valid_json
                                           THEN FileChunks[r_file[r]] ELSE <<>>]
    /\ r_mentions' = [r_mentions EXCEPT ![r] = IF Files[r_file[r]].valid_json
                                               THEN FileMentions[r_file[r]] ELSE <<>>]
    /\ r_pc' = [r_pc EXCEPT ![r] = IF r_chunks'[r] = <<>> THEN "done" ELSE "document"]
    /\ UNCHANGED <<shared, r_file, r_link, r_i, r_weeds, r_crops, r_init, r_turns>>
    /\ UNCHANGED <<chunker_vars, loader_vars, query_vars, ingestion_vars, lookup_vars>>

\* 1. the Document node
RunDocument(r) ==
    /\ r_pc[r] = "document"
    /\ shared' = WriteDocument(StoreSeenBy(r), r_chunks[r], Files[r_file[r]].name, r)
    /\ r_pc' = [r_pc EXCEPT ![r] = "herbicide"]
    /\ UNCHANGED <<r_file, r_link, r_chunks, r_mentions, r_i, r_weeds, r_crops, r_init>>
    /\ r_turns' = TurnOf(r)
    /\ UNCHANGED <<chunker_vars, loader_vars, query_vars, ingestion_vars, lookup_vars>>

\* 2. the HAS_LABEL relationship
RunHerbicide(r) ==
    /\ r_pc[r] = "herbicide"
    /\ shared' = WriteHasLabel(StoreSeenBy(r), r_chunks[r])
    /\ r_pc' = [r_pc EXCEPT ![r] = "chunk"]
    /\ r_i' = [r_i EXCEPT ![r] = 1]
    /\ UNCHANGED <<r_file, r_link, r_chunks, r_mentions, r_weeds, r_crops, r_init>>
    /\ r_turns' = TurnOf(r)
    /\ UNCHANGED <<chunker_vars, loader_vars, query_vars, ingestion_vars, lookup_vars>>

\* 3. the Chunk node and its CONTAINS_CHUNK relationship
RunChunk(r) ==
    /\ r_pc[r] = "chunk"
    /\ shared' = WriteChunk(StoreSeenBy(r), r_chunks[r], r_i[r])
    /\ IF r_i[r] > 1
       THEN /\ r_pc' = [r_pc EXCEPT ![r] = "next"]
            /\ UNCHANGED <<r_i, r_weeds, r_crops>>
       ELSE /\ r_weeds' = [r_weeds EXCEPT ![r] = RunWeedsToLink(r, r_i[r])]
            /\ r_crops' = [r_crops EXCEPT ![r] = RunCropsToLink(r, r_i[r])]
            /\ r_pc' = [r_pc EXCEPT ![r] = RunPcAfter(r, r_i[r], r_weeds'[r], r_crops'[r])]
            /\ r_i' = [r_i EXCEPT ![r] = RunIndexAfter(r, r_i[r], r_weeds'[r], r_crops'[r])]
    /\ UNCHANGED <<r_file, r_link, r_chunks, r_mentions, r_init>>
    /\ r_turns' = TurnOf(r)
    /\ UNCHANGED <<chunker_vars, loader_vars, query_vars, ingestion_vars, lookup_vars>>

\* 4. the NEXT relationship from the previous chunk
RunNext(r) ==
    /\ r_pc[r] = "next"
    /\ shared' = WriteNext(StoreSeenBy(r), r_chunks[r], r_i[r])
    /\ r_weeds' = [r_weeds EXCEPT ![r] = RunWeedsToLink(r, r_i[r])]
    /\ r_crops' = [r_crops EXCEPT ![r] = RunCropsToLink(r, r_i[r])]
    /\ r_pc' = [r_pc EXCEPT ![r] = RunPcAfter(r, r_i[r], r_weeds'[r], r_crops'[r])]
    /\ r_i' = [r_i EXCEPT ![r] = RunIndexAfter(r, r_i[r], r_weeds'[r], r_crops'[r])]
    /\ UNCHANGED <<r_file, r_link, r_chunks, r_mentions, r_init>>
    /\ r_turns' = TurnOf(r)
    /\ UNCHANGED <<chunker_vars, loader_vars, query_vars, ingestion_vars, lookup_vars>>

\* 5. the MENTIONS relationships of one weed name
RunWeed(r) ==
    /\ r_pc[r] = "link"
    /\ \E weed \in r_weeds[r] :
          /\ shared' = WriteWeedMentions(StoreSeenBy(r), r_chunks[r][r_i[r]], weed)
          /\ r_weeds' = [r_weeds EXCEPT ![r] = @ \ {weed}]
    /\ r_pc' = [r_pc EXCEPT ![r] = RunPcAfter(r, r_i[r], r_weeds'[r], r_crops[r])]
    /\ r_i' = [r_i EXCEPT ![r] = RunIndexAfter(r, r_i[r], r_weeds'[r], r_crops[r])]
    /\ UNCHANGED <<r_file, r_link, r_chunks, r_mentions, r_crops, r_init>>
    /\ r_turns' = TurnOf(r)
    /\ UNCHANGED <<chunker_vars, loader_vars, query_vars, ingestion_vars, lookup_vars>>

\* 5. the MENTIONS relationships of one crop name, after the weeds
RunCrop(r) ==
    /\ r_pc[r] = "link"
    /\ r_weeds[r] = {}
    /\ \E crop \in r_crops[r] :
          /\ shared' = WriteCropMentions(StoreSeenBy(r), r_chunks[r][r_i[r]], crop)
          /\ r_crops' = [r_crops EXCEPT ![r] = @ \ {crop}]
    /\ r_pc' = [r_pc EXCEPT ![r] = RunPcAfter(r, r_i[r], r_weeds[r], r_crops'[r])]
    /\ r_i' = [r_i EXCEPT ![r] = RunIndexAfter(r, r_i[r], r_weeds[r], r_crops'[r])]
    /\ UNCHANGED <<r_file, r_link, r_chunks, r_mentions, r_weeds, r_init>>
    /\ r_turns' = TurnOf(r)
    /\ UNCHANGED <<chunker_vars, loader_vars, query_vars, ingestion_vars, lookup_vars>>

\* ------------------------------------------------------------------------
\* chunk_docling_json as a process
\* ------------------------------------------------------------------------

\* the file the chunker process reads
ChunkerFile ==
    <<"E", "L", "B", "L", "7", ".", "d", "o", "c", "l", "i", "n", "g", ".", "j", "s", "o", "n">>

\* all sequences over S of length at most n
SeqsUpTo(S, n) == UNION {[1..k -> S] : k \in 0..n}

ChunkerIdle ==
    /\ c_tables = <<>>
    /\ c_max = DefaultMaxChunkTokens
    /\ c_pc = "idle"
    /\ c_idx = 0
    /\ sequence = 0
    /\ current_section = NoSection
    /\ yielded = <<>>
    /\ yield_from = <<>>
    /\ c_run = 0
    /\ c_first = <<>>

ChunkerInit ==
    /\ c_tables \in SeqsUpTo(DOMAIN Tables, MaxTables)
    /\ c_max \in MaxChunkTokens
    /\ c_pc = "idle"
    /\ c_idx = 0
    /\ sequence = 0
    /\ current_section = NoSection
    /\ yielded = <<>>
    /\ yield_from = <<>>
    /\ c_run = 0
    /\ c_first = <<>>

\* the call: the generator starts with its own locals
ChunkerCall ==
    /\ c_pc = "idle"
    /\ c_run < MaxChunkerRuns
    /\ c_pc' = "loop"
    /\ c_idx' = 1
    /\ sequence' = FreshLoopState.sequence
    /\ current_section' = FreshLoopState.current_section
    /\ yielded' = <<>>
    /\ yield_from' = <<>>
    /\ c_run' = c_run + 1
    /\ UNCHANGED <<c_tables, c_max, c_first, loader_vars, query_vars, runs_vars, ingestion_vars, lookup_vars>>

\* one iteration of the for loop
ChunkerIterate ==
    /\ c_pc = "loop"
    /\ c_idx <= Len(c_tables)
    /\ LET r == ChunkStep([sequence |-> sequence, current_section |-> current_section],
                          Tables[c_tables[c_idx]], ProductNumber(ChunkerFile), ChunkerFile,
                          c_max)
       IN  /\ sequence' = r.st.sequence
           /\ current_section' = r.st.current_section
           /\ yielded' = yielded \o r.out
           /\ yield_from' = yield_from \o [i \in DOMAIN r.out |-> c_idx]
    /\ c_idx' = c_idx + 1
    /\ UNCHANGED <<c_tables, c_max, c_pc, c_run, c_first, loader_vars, query_vars, runs_vars, ingestion_vars, lookup_vars>>

\* the generator is exhausted
ChunkerReturn ==
    /\ c_pc = "loop"
    /\ c_idx > Len(c_tables)
    /\ c_pc' = "idle"
    /\ c_first' = IF c_run = 1 THEN yielded ELSE c_first
    /\ UNCHANGED <<c_tables, c_max, c_idx, sequence, current_section, yielded, yield_from,
                   c_run, loader_vars, query_vars, runs_vars, ingestion_vars, lookup_vars>>

ChunkerNext == ChunkerCall \/ ChunkerIterate \/ ChunkerReturn

\* ------------------------------------------------------------------------
\* Reading the store (queries.py)
\* ------------------------------------------------------------------------

\* a null of a query row: a missing node, a missing string
NullNode == Node("None", <<>>)

Null == <<"None">>

\* n.field, null when the node or the property is missing
Prop(s, n, field) ==
    IF n \in DOMAIN s.props /\ field \in DOMAIN s.props[n] THEN s.props[n][field] ELSE Null

RECURSIVE Sum(_, _)
Sum(f, S) ==
    IF S = {} THEN 0
    ELSE LET x == CHOOSE y \in S : TRUE
         IN  f[x] + Sum(f, S \ {x})

RECURSIVE Repeat(_, _)
Repeat(x, n) == IF n <= 0 THEN <<>> ELSE <<x>> \o Repeat(x, n - 1)

RECURSIVE Flatten(_)
Flatten(seqs) == IF seqs = <<>> THEN <<>> ELSE seqs[1] \o Flatten(Tail(seqs))

RECURSIVE SeqOf(_)
SeqOf(S) ==
    IF S = {} THEN <<>>
    ELSE LET x == CHOOSE y \in S : TRUE
         IN  <<x>> \o SeqOf(S \ {x})

\* OPTIONAL MATCH (d:Document)-[:CONTAINS_CHUNK]->(c)
\* OPTIONAL MATCH (h:Herbicide)-[:HAS_LABEL]->(d)
\* the pairs (d, h) a Chunk node c is joined with, null where there is none
DocumentsOf(s, c) == {e.src : e \in {x \in EdgesOf(s, "CONTAINS_CHUNK") : x.dst = c}}

HerbicidesOf(s, d) == {e.src : e \in {x \in EdgesOf(s, "HAS_LABEL") : x.dst = d}}

Joined(s, c) ==
    IF DocumentsOf(s, c) = {} THEN {[d |-> NullNode, h |-> NullNode]}
    ELSE UNION {IF HerbicidesOf(s, d) = {} THEN {[d |-> d, h |-> NullNode]}
                ELSE {[d |-> d, h |-> h] : h \in HerbicidesOf(s, d)} : d \in DocumentsOf(s, c)}

\* the number of rows one Chunk node gets for the pair: one for every
\* Document node of the pair and every Herbicide node linked to it
JoinCount(s, c, pair) ==
    IF pair.d = NullNode THEN 1
    ELSE (CopiesIn(Edge("CONTAINS_CHUNK", pair.d, c), s.edges) \div CopiesIn(c, s.nodes))
         * (IF pair.h = NullNode THEN 1
            ELSE CopiesIn(Edge("HAS_LABEL", pair.h, pair.d), s.edges)
                 \div CopiesIn(pair.d, s.nodes))

\* the Chunk nodes the vector index chunk_embeddings holds
IndexedChunks(s) == {c \in NodesOf(s, "Chunk") : Prop(s, c, "embedding") # Null}

\* db.index.vector.queryNodes('chunk_embeddings', $k, $embedding): the k
\* nearest nodes, nearest first.  The similarity of two embeddings is the
\* model's: any ranking of the indexed nodes, with any scores that do not
\* increase along it, is a possible answer.
Scores == {9, 8}

\* (mutation) the index yields fewer than k nodes though it holds k
RankingsShortOfK(s, kk) ==
    LET n == Min2(kk - 1, Cardinality(IndexedChunks(s)))
    IN  {r \in [1..n -> IndexedChunks(s)] : \A i, j \in 1..n : i # j => r[i] # r[j]}

Rankings(s, kk) ==
    LET n == Min2(kk, Cardinality(IndexedChunks(s)))
    IN  {r \in [1..n -> IndexedChunks(s)] : \A i, j \in 1..n : i # j => r[i] # r[j]}

ScoreLists(n) == {sc \in [1..n -> Scores] : \A i, j \in 1..n : i < j => sc[i] >= sc[j]}

\* if chunk_type: filters.append("chunk.chunk_type = $chunk_type")
NoChunkType == "None"

PassesFilter(s, c, ct) == ct = NoChunkType \/ Prop(s, c, "chunk_type") = ct

VectorRow(s, c, h, score) ==
    [chunk_id |-> c.key, text |-> Prop(s, c, "text"), chunk_type |-> Prop(s, c, "chunk_type"),
     section |-> Prop(s, c, "parent_section"), product_number |-> Prop(s, c, "product_number"),
     product_name |-> Prop(s, h, "product_name"),
     active_constituent |-> Prop(s, h, "active_constituent"), score |-> score]

\* the rows of one ranked node
VectorRows(s, c, score) ==
    Flatten([i \in 1..Cardinality(Joined(s, c)) |->
                LET pair == SeqOf(Joined(s, c))[i]
                IN  Repeat(VectorRow(s, c, pair.h, score), JoinCount(s, c, pair))])

\* vector_search_chunks(query_embedding, k, chunk_type) when the index
\* answers with ranked and scores: the filter applies to what the index
\* yielded, ORDER BY score DESC keeps its order
vector_search_chunks(s, ranked, scores, ct) ==
    Flatten([i \in 1..Len(ranked) |->
                IF PassesFilter(s, ranked[i], ct) THEN VectorRows(s, ranked[i], scores[i])
                ELSE <<>>])

\* graph_traverse_from_chunks(chunk_ids): the three queries.  Rows whose
\* order the queries leave open are given as sets.
MatchedChunks(s, chunk_ids) ==
    {c \in NodesOf(s, "Chunk") : \E i \in DOMAIN chunk_ids : chunk_ids[i] = c.key}

OrNull(S) == IF S = {} THEN {NullNode} ELSE S

\* UNWIND $chunk_ids AS cid MATCH (c:Chunk {chunk_id: cid})
\* OPTIONAL MATCH (c)-[:NEXT]->(next) OPTIONAL MATCH (prev)-[:NEXT]->(c)
ContextRows(s, cid) ==
    LET c == Node("Chunk", cid)
        nexts == OrNull({e.dst : e \in {x \in EdgesOf(s, "NEXT") : x.src = c}})
        prevs == OrNull({e.src : e \in {x \in EdgesOf(s, "NEXT") : x.dst = c}})
    IN  IF ~BagIn(c, s.nodes) THEN {}
        ELSE {[chunk_id |-> cid, text |-> Prop(s, c, "text"),
               chunk_type |-> Prop(s, c, "chunk_type"),
               section |-> Prop(s, c, "parent_section"),
               product_number |-> Prop(s, c, "product_number"),
               prev_chunk_id |-> p.key, prev_text |-> Prop(s, p, "text"),
               next_chunk_id |-> n.key, next_text |-> Prop(s, n, "text")] :
                 p \in prevs, n \in nexts}

\* UNWIND $chunk_ids AS cid MATCH (c:Chunk {chunk_id: cid})-[:MENTIONS]->(entity)
\* RETURN labels(entity)[0], name, collect(DISTINCT cid)
MentionRows(s, chunk_ids) ==
    LET linked == {e \in EdgesOf(s, "MENTIONS") : e.src \in MatchedChunks(s, chunk_ids)}
    IN  {[entity_type |-> entity.label, entity_name |-> entity.key,
          mentioned_in_chunks |-> {e.src.key : e \in {x \in linked : x.dst = entity}}] :
            entity \in {e.dst : e \in linked}}

\* MATCH (c:Chunk {chunk_id: cid}) MATCH (d:Document {product_number:
\* c.product_number}) MATCH (h:Herbicide)-[:HAS_LABEL]->(d) RETURN DISTINCT
HerbicideRows(s, chunk_ids) ==
    LET docs == {DocumentNode(Prop(s, c, "product_number")) : c \in MatchedChunks(s, chunk_ids)}
    IN  {[product_number |-> h.key, product_name |-> Prop(s, h, "product_name"),
          active_constituent |-> Prop(s, h, "active_constituent")] :
            h \in UNION {HerbicidesOf(s, d) : d \in docs}}

graph_traverse_from_chunks(s, chunk_ids) ==
    [chunks |-> [i \in DOMAIN chunk_ids |-> ContextRows(s, chunk_ids[i])],
     mentions |-> MentionRows(s, chunk_ids),
     herbicides |-> HerbicideRows(s, chunk_ids)]

\* the queries graph_traverse_from_chunks sends, in order
TraversalQueries == <<"chunks_query", "mentions_query", "herbicides_query">>

\* (mutation) the expansion runs whenever it is asked for
ExpandWhenAsked(eg, vr) == eg

\* if expand_graph and vector_results:
ShouldExpand(eg, vr) == eg /\ vr # <<>>

\* (mutation) the chunks the traversal found mentions for are moved to the front
AttachAndRerank(res, graph_context) ==
    LET cited(row) == \E m \in graph_context.mentions : row.chunk_id \in m.mentioned_in_chunks
        other(row) == ~cited(row)
    IN  [query |-> res.query,
         chunks |-> SelectSeq(res.chunks, cited) \o SelectSeq(res.chunks, other),
         graph_context |-> graph_context]

\* result["graph_context"] = graph_context
AttachContext(res, graph_context) ==
    [query |-> res.query, chunks |-> res.chunks, graph_context |-> graph_context]

\* find_chunks_for_weed(weed_name, k): the query.
\* WHERE toLower(w.common_name) CONTAINS toLower($weed_name)
\*    OR toLower(w.display_name) CONTAINS toLower($weed_name)
WeedMatches(s, w, name) ==
    \/ Contains(Lower(w.key), Lower(name))
    \/ /\ Prop(s, w, "display_name") # Null
       /\ Contains(Lower(Prop(s, w, "display_name")), Lower(name))

\* MATCH (c:Chunk)-[:MENTIONS]->(w:Weed) WHERE ... WITH c, w, 1.0 AS score;
\* scores are in tenths
MentionPart(s, name) ==
    {[c |-> e.src, w |-> e.dst, score |-> 10] :
        e \in {x \in EdgesOf(s, "MENTIONS") :
                  x.src.label = "Chunk" /\ x.dst.label = "Weed" /\ WeedMatches(s, x.dst, name)}}

\* MATCH (c:Chunk) WHERE toLower(c.text) CONTAINS toLower($weed_name)
\* WITH c, null AS w, 0.8 AS score
TextPart(s, name) ==
    {[c |-> c, w |-> NullNode, score |-> 8] :
        c \in {x \in NodesOf(s, "Chunk") :
                  Prop(s, x, "text") # Null /\ Contains(Lower(Prop(s, x, "text")), Lower(name))}}

\* UNION keeps the distinct rows (c, w, score) of the two parts; the two
\* OPTIONAL MATCHes then give every row once per pair (d, h)
FindInstances(s, name) ==
    {[row |-> r, pair |-> p, copy |-> i] :
        r \in MentionPart(s, name) \cup TextPart(s, name),
        p \in UNION {Joined(s, c) : c \in NodesOf(s, "Chunk")},
        i \in 1..2} \cap
    {x \in [row : MentionPart(s, name) \cup TextPart(s, name),
            pair : UNION {Joined(s, c) : c \in NodesOf(s, "Chunk")},
            copy : 1..2] :
        x.pair \in Joined(s, x.row.c) /\ x.copy <= JoinCount(s, x.row.c, x.pair)}

FindRow(s, x) ==
    [chunk_id |-> x.row.c.key, text |-> Prop(s, x.row.c, "text"),
     chunk_type |-> Prop(s, x.row.c, "chunk_type"),
     section |-> Prop(s, x.row.c, "parent_section"),
     product_number |-> Prop(s, x.row.c, "product_number"),
     product_name |-> Prop(s, x.pair.h, "product_name"),
     matched_weed |-> IF x.row.w = NullNode THEN Null ELSE x.row.w.key,
     score |-> x.row.score]

\* ORDER BY score DESC LIMIT $k: the lists the query may answer with; rows
\* of equal score come in any order
FindResults(s, name, kk) ==
    LET I == FindInstances(s, name)
        n == Min2(kk, Cardinality(I))
        picks == {q \in [1..n -> I] :
                     /\ \A i, j \in 1..n : i # j => q[i] # q[j]
                     /\ \A i, j \in 1..n : i < j => q[i].row.score >= q[j].row.score
                     /\ \A x \in I : (\A i \in 1..n : q[i] # x) =>
                                        \A i \in 1..n : q[i].row.score >= x.row.score}
    IN  {[i \in 1..n |-> FindRow(s, q[i])] : q \in picks}

\* ------------------------------------------------------------------------
\* hybrid_search and find_chunks_for_weed as a process
\* ------------------------------------------------------------------------

QueryTexts == {<<"r", "y", "e">>, <<"d", "o", "c", "k">>}

Ks == {1, MaxK}

ChunkTypes == {NoChunkType, "weed_table", "metadata"}

WeedNames ==
    {<<"r", "y", "e", "g", "r", "a", "s", "s">>, <<"R", "a", "d", "i", "s", "h">>,
     <<"x", "1">>, <<"z", "z", "z">>}

EmptyResult == [query |-> <<>>, chunks |-> <<>>]

QueryIdle ==
    /\ q_pc = "idle"
    /\ query_text = <<>>
    /\ q_k = 0
    /\ expand_graph = FALSE
    /\ q_chunk_type = NoChunkType
    /\ weed_name = <<>>
    /\ vector_results = <<>>
    /\ result = EmptyResult
    /\ calls = <<>>
    /\ f_rows = <<>>
    /\ raised = FALSE
    /\ h_vector = <<>>

\* the variables of the query process as they are between calls
QueryReset ==
    /\ q_pc' = "idle"
    /\ query_text' = <<>>
    /\ q_k' = 0
    /\ expand_graph' = FALSE
    /\ q_chunk_type' = NoChunkType
    /\ weed_name' = <<>>
    /\ vector_results' = <<>>
    /\ result' = EmptyResult
    /\ calls' = <<>>
    /\ f_rows' = <<>>
    /\ raised' = FALSE
    /\ h_vector' = <<>>

\* hybrid_search(query_text, k, expand_graph, chunk_type): the query is embedded
HybridCall(q, kk, eg, ct) ==
    /\ q_pc = "idle"
    /\ l_pc = "idle"
    /\ q_pc' = "vector"
    /\ query_text' = q
    /\ q_k' = kk
    /\ expand_graph' = eg
    /\ q_chunk_type' = ct
    /\ vector_results' = <<>>
    /\ result' = EmptyResult
    /\ calls' = <<>>
    /\ h_vector' = <<>>
    /\ UNCHANGED <<weed_name, f_rows, raised, chunker_vars, loader_vars, runs_vars, ingestion_vars, lookup_vars>>

\* 2. the vector search; result is built from what it returns
VectorSearch ==
    /\ q_pc = "vector"
    /\ \E ranked \in Rankings(store, q_k) :
          \E scores \in ScoreLists(Len(ranked)) :
             vector_results' = vector_search_chunks(store, ranked, scores, q_chunk_type)
    /\ h_vector' = vector_results'
    /\ calls' = Append(calls, "vector_query")
    /\ result' = [query |-> query_text, chunks |-> vector_results']
    /\ q_pc' = IF ShouldExpand(expand_graph, vector_results') THEN "expand" ELSE "return"
    /\ UNCHANGED <<query_text, q_k, expand_graph, q_chunk_type, weed_name, f_rows, raised,
                   chunker_vars, loader_vars, runs_vars, ingestion_vars, lookup_vars>>

\* 3. the graph expansion from the chunk ids of the vector results
Expand ==
    /\ q_pc = "expand"
    /\ calls' = calls \o TraversalQueries
    /\ result' = AttachContext(result,
                     graph_traverse_from_chunks(store,
                         [i \in DOMAIN vector_results |-> vector_results[i].chunk_id]))
    /\ q_pc' = "return"
    /\ UNCHANGED <<query_text, q_k, expand_graph, q_chunk_type, weed_name, vector_results,
                   f_rows, raised, h_vector, chunker_vars, loader_vars, runs_vars, ingestion_vars, lookup_vars>>

\* return result: the call is over and its locals are gone
HybridReturn ==
    /\ q_pc = "return"
    /\ QueryReset
    /\ UNCHANGED <<chunker_vars, loader_vars, runs_vars, ingestion_vars, lookup_vars>>

\* find_chunks_for_weed(weed_name, k)
FindCall(name, kk) ==
    /\ q_pc = "idle"
    /\ l_pc = "idle"
    /\ q_pc' = "find"
    /\ weed_name' = name
    /\ q_k' = kk
    /\ calls' = <<>>
    /\ f_rows' = <<>>
    /\ raised' = FALSE
    /\ UNCHANGED <<query_text, expand_graph, q_chunk_type, vector_results, result, h_vector,
                   chunker_vars, loader_vars, runs_vars, ingestion_vars, lookup_vars>>

\* The first part of the UNION ends in WITH, not in RETURN: a server that
\* holds to the grammar of Cypher rejects the query and session.run raises.
FindRaise ==
    /\ q_pc = "find"
    /\ calls' = Append(calls, "find_query")
    /\ raised' = TRUE
    /\ q_pc' = "find_return"
    /\ UNCHANGED <<query_text, q_k, expand_graph, q_chunk_type, weed_name, vector_results,
                   result, f_rows, h_vector, chunker_vars, loader_vars, runs_vars, ingestion_vars, lookup_vars>>

\* A server that takes the query as it reads, the last WITH and RETURN
\* applying to the rows of both parts, answers with one of FindResults.
FindRun ==
    /\ q_pc = "find"
    /\ calls' = Append(calls, "find_query")
    /\ f_rows' \in FindResults(store, weed_name, q_k)
    /\ q_pc' = "find_return"
    /\ UNCHANGED <<query_text, q_k, expand_graph, q_chunk_type, weed_name, vector_results,
                   result, raised, h_vector, chunker_vars, loader_vars, runs_vars, ingestion_vars, lookup_vars>>

\* the list is returned, or the exception reaches the caller
FindReturn ==
    /\ q_pc = "find_return"
    /\ QueryReset
    /\ UNCHANGED <<chunker_vars, loader_vars, runs_vars, ingestion_vars, lookup_vars>>

\* ------------------------------------------------------------------------
\* packages/ingestion/scripts/resume_gemini.py: main and run_single
\* ------------------------------------------------------------------------

\* the PDFs of a run of main, in the order of gather_pdfs
Pdfs == 1..MaxPdfs

\* the values of --max-retries, --delay (seconds) and --max-concurrent
RetryLimits == 0..MaxRetries

Delays == {1, 100}

PoolSizes == {1, 2}

\* what the parser process may leave in proc.stderr when it fails
Stderrs ==
    {<<"Q", "u", "o", "t", "a", " ", "e", "x", "c", "e", "e", "d", "e", "d">>,
     <<"H", "T", "T", "P", " ", "4", "2", "9">>,
     <<"R", "a", "t", "e", "-", "L", "i", "m", "i", "t">>,
     <<"T", "o", "o", " ", "M", "a", "n", "y", " ", "R", "e", "q", "u", "e", "s", "t", "s">>,
     <<"r", "a", "t", "e", " ", "l", "i", "m", "i", "t">>,
     <<"F", "i", "l", "e", "N", "o", "t", "F", "o", "u", "n", "d", "E", "r", "r", "o", "r">>,
     <<>>}

RateSignals ==
    {<<"q", "u", "o", "t", "a">>, <<"r", "a", "t", "e", " ", "l", "i", "m", "i", "t">>,
     <<"r", "a", "t", "e", "-", "l", "i", "m", "i", "t">>, <<"4", "2", "9">>,
     <<"t", "o", "o", " ", "m", "a", "n", "y", " ", "r", "e", "q", "u", "e", "s", "t", "s">>}

\* stderr = (proc.stderr or "").lower(); any(x in stderr for x in (...))
IsRateLimit(err) == \E x \in RateSignals : Contains(Lower(err), x)

\* (mutation) the wait doubles without a ceiling
BackoffUncapped(base, n) == base * 2 ^ (n - 1)

\* backoff = min(300, base_delay * (2 ** (attempt - 1)))
Backoff(base, n) == Min2(300, base * 2 ^ (n - 1))

\* main has not been started
ResumeIdle ==
    /\ m_pc = "idle"
    /\ total = 0
    /\ max_retries = 0
    /\ base_delay = 0
    /\ max_concurrent = 1
    /\ rs_pc = [f \in Pdfs |-> "none"]
    /\ attempt = [f \in Pdfs |-> 0]
    /\ rs_result = [f \in Pdfs |-> "none"]
    /\ success = 0
    /\ h_outcomes = [f \in Pdfs |-> <<>>]
    /\ h_waits = [f \in Pdfs |-> <<>>]

\* total == 0: main returns at once
MainReturnEmpty ==
    /\ m_pc = "submit"
    /\ total = 0
    /\ m_pc' = "done"
    /\ UNCHANGED <<total, max_retries, base_delay, max_concurrent, rs_pc, attempt, rs_result,
                   success, h_outcomes, h_waits>>
    /\ UNCHANGED not_resume

\* time.sleep(args.delay); futures.append(exe.submit(run_single, ...)): the
\* PDFs are submitted in order; after the last one main collects the results
Submit(f) ==
    /\ m_pc = "submit"
    /\ f <= total
    /\ rs_pc[f] = "none"
    /\ \A g \in 1..(f - 1) : rs_pc[g] # "none"
    /\ rs_pc' = [rs_pc EXCEPT ![f] = "pending"]
    /\ m_pc' = IF f = total THEN "collect" ELSE "submit"
    /\ UNCHANGED <<total, max_retries, base_delay, max_concurrent, attempt, rs_result,
                   success, h_outcomes, h_waits>>
    /\ UNCHANGED not_resume

\* the threads of the pool that are inside run_single
Busy == {g \in Pdfs : rs_pc[g] \in {"running", "sleeping"}}

\* A thread of the pool takes the oldest task and enters run_single: an
\* existing output ends the call with True; otherwise the loop starts, or
\* ends at once when max_retries < 1.
Start(f, output_exists) ==
    /\ rs_pc[f] = "pending"
    /\ \A g \in 1..(f - 1) : rs_pc[g] # "pending"
    /\ Cardinality(Busy) < max_concurrent
    /\ IF output_exists
       THEN /\ rs_pc' = [rs_pc EXCEPT ![f] = "returned"]
            /\ rs_result' = [rs_result EXCEPT ![f] = "True"]
            /\ UNCHANGED attempt
       ELSE IF max_retries < 1
       THEN /\ rs_pc' = [rs_pc EXCEPT ![f] = "returned"]
            /\ rs_result' = [rs_result EXCEPT ![f] = "False"]
            /\ UNCHANGED attempt
       ELSE /\ rs_pc' = [rs_pc EXCEPT ![f] = "running"]
            /\ attempt' = [attempt EXCEPT ![f] = 1]
            /\ UNCHANGED rs_result
    /\ UNCHANGED <<m_pc, total, max_retries, base_delay, max_concurrent, success, h_outcomes,
                   h_waits>>
    /\ UNCHANGED not_resume

\* subprocess.run returns with returncode 0
AttemptSucceeds(f) ==
    /\ rs_pc[f] = "running"
    /\ rs_pc' = [rs_pc EXCEPT ![f] = "returned"]
    /\ rs_result' = [rs_result EXCEPT ![f] = "True"]
    /\ h_outcomes' = [h_outcomes EXCEPT ![f] = Append(@, "success")]
    /\ UNCHANGED <<m_pc, total, max_retries, base_delay, max_concurrent, attempt, success,
                   h_waits>>
    /\ UNCHANGED not_resume

\* subprocess.run returns with another returncode and err in proc.stderr: a
\* rate-limit signal starts the wait, anything else ends the call with False
AttemptFails(f, err) ==
    /\ rs_pc[f] = "running"
    /\ IF IsRateLimit(err)
       THEN /\ rs_pc' = [rs_pc EXCEPT ![f] = "sleeping"]
            /\ h_outcomes' = [h_outcomes EXCEPT ![f] = Append(@, "rate_limit")]
            /\ h_waits' = [h_waits EXCEPT ![f] = Append(@, Backoff(base_delay, attempt[f]))]
            /\ UNCHANGED rs_result
       ELSE /\ rs_pc' = [rs_pc EXCEPT ![f] = "returned"]
            /\ rs_result' = [rs_result EXCEPT ![f] = "False"]
            /\ h_outcomes' = [h_outcomes EXCEPT ![f] = Append(@, "hard")]
            /\ UNCHANGED h_waits
    /\ UNCHANGED <<m_pc, total, max_retries, base_delay, max_concurrent, attempt, success>>
    /\ UNCHANGED not_resume

\* time.sleep(backoff) ends; continue: the next attempt, or the end of the
\* loop and return False
WakeUp(f) ==
    /\ rs_pc[f] = "sleeping"
    /\ IF attempt[f] < max_retries
       THEN /\ attempt' = [attempt EXCEPT ![f] = @ + 1]
            /\ rs_pc' = [rs_pc EXCEPT ![f] = "running"]
            /\ UNCHANGED rs_result
       ELSE /\ rs_pc' = [rs_pc EXCEPT ![f] = "returned"]
            /\ rs_result' = [rs_result EXCEPT ![f] = "False"]
            /\ UNCHANGED attempt
    /\ UNCHANGED <<m_pc, total, max_retries, base_delay, max_concurrent, success, h_outcomes,
                   h_waits>>
    /\ UNCHANGED not_resume

\* for fut in as_completed(futures): ok = fut.result(); if ok: success += 1
Collect(f) ==
    /\ m_pc = "collect"
    /\ rs_pc[f] = "returned"
    /\ rs_pc' = [rs_pc EXCEPT ![f] = "collected"]
    /\ success' = IF rs_result[f] = "True" THEN success + 1 ELSE success
    /\ UNCHANGED <<m_pc, total, max_retries, base_delay, max_concurrent, attempt, rs_result,
                   h_outcomes, h_waits>>
    /\ UNCHANGED not_resume

\* logging.info("Completed: %d/%d succeeded", success, total)
MainEnd ==
    /\ m_pc = "collect"
    /\ \A f \in 1..total : rs_pc[f] = "collected"
    /\ m_pc' = "done"
    /\ UNCHANGED <<total, max_retries, base_delay, max_concurrent, rs_pc, attempt, rs_result,
                   success, h_outcomes, h_waits>>
    /\ UNCHANGED not_resume

\* ------------------------------------------------------------------------
\* extractor.py: process_directory, process_single_file and
\* extract_from_markdown; the model call runs on the thread of a pool
\* ------------------------------------------------------------------------

MdFiles == 1..MaxMdFiles

\* results = {'success': [], 'error': [], 'skipped': [], 'timeout': []}
NoResults == [success |-> <<>>, error |-> <<>>, skipped |-> <<>>, timeout |-> <<>>]

\* the bucket process_directory puts a result with this status in
BucketOf(status) ==
    IF status \in {"success", "skipped", "timeout"} THEN status ELSE "error"

\* file f is in results[bucket]
InBucket(f, bucket) == \E k \in 1..Len(results[bucket]) : results[bucket][k].file = f

\* process_directory has not been started
ExtractIdle ==
    /\ e_pc = "idle"
    /\ e_total = 0
    /\ e_i = 0
    /\ worker = "none"
    /\ hangs = FALSE
    /\ results = NoResults
    /\ h_hung = {}

\* ThreadPoolExecutor.__exit__ is shutdown(wait=True): it joins the thread of
\* the pool, so it returns only once the submitted call has ended
ExecutorExit(w) == w # "running"

\* the end of an iteration of the for loop: the result goes to its bucket
Tally(status) ==
    /\ results' = [results EXCEPT ![BucketOf(status)] =
                        Append(@, [file |-> e_i, status |-> status])]
    /\ e_i' = e_i + 1
    /\ e_pc' = "loop"
    /\ worker' = "none"
    /\ hangs' = FALSE

\* if output_path.exists(): results['skipped'].append(md_path.name); continue
SkipProcessed ==
    /\ e_pc = "loop"
    /\ e_i <= e_total
    /\ results' = [results EXCEPT !.skipped = Append(@, [file |-> e_i, status |-> "none"])]
    /\ e_i' = e_i + 1
    /\ UNCHANGED <<e_pc, worker, hangs>>
    /\ UNCHANGED <<e_total, h_hung>>
    /\ UNCHANGED not_extract

\* process_single_file: len(content.strip()) < 100
SkipShort ==
    /\ e_pc = "loop"
    /\ e_i <= e_total
    /\ Tally("skipped")
    /\ UNCHANGED <<e_total, h_hung>>
    /\ UNCHANGED not_extract

\* process_single_file calls extract_from_markdown, which submits
\* _call_gemini to the pool and waits in future.result(timeout=...);
\* never_returns: the model call of this file never returns
CallGemini(never_returns) ==
    /\ e_pc = "loop"
    /\ e_i <= e_total
    /\ e_pc' = "waiting"
    /\ worker' = "running"
    /\ hangs' = never_returns
    /\ h_hung' = IF never_returns THEN h_hung \cup {e_i} ELSE h_hung
    /\ UNCHANGED <<e_total, e_i, results>>
    /\ UNCHANGED not_extract

\* on the thread of the pool: _call_gemini returns the parsed response
GeminiReturns ==
    /\ worker = "running"
    /\ ~hangs
    /\ worker' = "returned"
    /\ UNCHANGED <<e_pc, e_total, e_i, hangs, results, h_hung>>
    /\ UNCHANGED not_extract

\* on the thread of the pool: _call_gemini raises (the HTTP timeout, a
\* response that is not JSON, ...)
GeminiRaises ==
    /\ worker = "running"
    /\ ~hangs
    /\ worker' = "raised"
    /\ UNCHANGED <<e_pc, e_total, e_i, hangs, results, h_hung>>
    /\ UNCHANGED not_extract

\* future.result returns data in time; the with block is left, the JSON is
\* written (or the write raises) and the result is tallied
ResultReturned(write_ok) ==
    /\ e_pc = "waiting"
    /\ worker = "returned"
    /\ ExecutorExit(worker)
    /\ Tally(IF write_ok THEN "success" ELSE "error")
    /\ UNCHANGED <<e_total, h_hung>>
    /\ UNCHANGED not_extract

\* future.result re-raises what _call_gemini raised: except Exception
ResultRaised ==
    /\ e_pc = "waiting"
    /\ worker = "raised"
    /\ ExecutorExit(worker)
    /\ Tally("error")
    /\ UNCHANGED <<e_total, h_hung>>
    /\ UNCHANGED not_extract

\* timeout_seconds pass with the call still running: FuturesTimeoutError,
\* raise APITimeoutError; the exception leaves the with block through
\* the exit of the executor
ResultTimeout ==
    /\ e_pc = "waiting"
    /\ worker = "running"
    /\ e_pc' = "shutdown"
    /\ UNCHANGED <<e_total, e_i, worker, hangs, results, h_hung>>
    /\ UNCHANGED not_extract

\* the exit of the executor returns; APITimeoutError reaches
\* process_single_file: except APITimeoutError, status 'timeout'
ShutdownReturns ==
    /\ e_pc = "shutdown"
    /\ ExecutorExit(worker)
    /\ Tally("timeout")
    /\ UNCHANGED <<e_total, h_hung>>
    /\ UNCHANGED not_extract

\* after the loop: the summary is written and returned
WriteSummary ==
    /\ e_pc = "loop"
    /\ e_i > e_total
    /\ e_pc' = "done"
    /\ UNCHANGED <<e_total, e_i, worker, hangs, results, h_hung>>
    /\ UNCHANGED not_extract

\* ------------------------------------------------------------------------
\* parser.py: parse_directory and parse_pdf.  parse_pdf is a coroutine; it
\* is suspended once, at await parser.aload_data(...)
\* ------------------------------------------------------------------------

\* the names of the PDFs of LABELS_DIR, sorted
Labels ==
    << <<"1", "2", "E", "L", "B", "L", ".", "p", "d", "f">>,
       <<"3", "4", "E", "L", "B", "L", ".", "p", "d", "f">>,
       <<"b", "a", "d", ".", "p", "d", "f">> >>

LabelIds == 1..MaxLabels

\* what parser.aload_data may return: None, no document, a document of
\* blanks, one document, two documents; document.text is never empty here,
\* and no text holds a labelled field extract_product_metadata looks for
Answers ==
    { [is_none |-> TRUE, list |-> <<>>],
      [is_none |-> FALSE, list |-> <<>>],
      [is_none |-> FALSE, list |-> << [text |-> <<" ", "NL">>] >>],
      [is_none |-> FALSE, list |-> << [text |-> <<"A", "c", "t", "i", "v", "e", ":", " ", "x">>] >>],
      [is_none |-> FALSE, list |-> << [text |-> <<"#", " ", "T">>],
                                      [text |-> <<"R", "a", "t", "e">>] >>] }

\* str(exc) of what parser.aload_data may raise
ParserErrors == { <<"API Error">>, <<>> }

\* what was at output_path before parse_pdf was first called
OldContent == <<"existing content">>

\* _document_text(document), document.text not empty
DocumentText(document) == document.text

\* "\n\n".join(_document_text(doc) for doc in documents)
CombinedText(documents) ==
    Join(<<"NL", "NL">>, [k \in 1..Len(documents) |-> DocumentText(documents[k])])

\* _infer_page_count(documents), no document carrying page metadata
InferPageCount(documents) == Max2(Len(documents), 0)

\* extract_product_metadata(text, filename), followed by the two fields
\* parse_pdf adds; the dict, as its items in insertion order
ProductMetadata(filename, documents) ==
    << <<"product_number", Replace(Replace(filename, <<"E", "L", "B", "L">>, <<>>),
                                   <<".", "p", "d", "f">>, <<>>)>>,
       <<"source_file", filename>>,
       <<"pages", Str(InferPageCount(documents))>>,
       <<"parser", <<"llama-parse">> >> >>

\* the line of _build_frontmatter for one item; '\"' is '"', so the
\* replace changes nothing
FrontmatterLine(item) ==
    IF item[1] # "pages" /\ \E c \in {":", "NL", "\""} : Contains(item[2], <<c>>)
    THEN <<item[1], ":", " ", "\"">> \o item[2] \o <<"\"">>
    ELSE <<item[1], ":", " ">> \o item[2]

\* _build_frontmatter(metadata)
BuildFrontmatter(metadata) ==
    Join(<<"NL">>, << <<"-", "-", "-">> >>
                   \o [k \in 1..Len(metadata) |-> FrontmatterLine(metadata[k])]
                   \o << <<"-", "-", "-", "NL", "NL">> >>)

\* result, as parse_pdf initialises it
NewResult ==
    [success |-> FALSE, skipped |-> FALSE, error |-> Null, pages |-> 0, metadata |-> <<>>]

\* (mutation) every call parses again
ShouldSkipNever(exists, forced) == FALSE

\* if output_path.exists() and not force
ShouldSkip(exists, forced) == exists /\ ~forced

\* (mutation) the handler leaves the file where it is
UnlinkSkipped(files, i) == files

\* if output_path.exists(): output_path.unlink(missing_ok=True)
Unlink(files, i) == [files EXCEPT ![i] = Null]

\* except Exception as exc: the handler of parse_pdf
ParseFailed(message) ==
    /\ p_result' = [p_result EXCEPT !.error = message]
    /\ p_out' = Unlink(p_out, p_i)
    /\ p_pc' = "returned"

\* parse_directory has not been started
ParseIdle ==
    /\ p_pc = "idle"
    /\ force = FALSE
    /\ has_aload = TRUE
    /\ p_i = 0
    /\ p_out = [i \in LabelIds |-> Null]
    /\ p_result = NewResult
    /\ aload_calls = [i \in LabelIds |-> 0]
    /\ p_stats = [parsed |-> 0, skipped |-> 0, failed |-> 0]
    /\ p_parsed = {}
    /\ p_failed = <<>>
    /\ h_before = Null
    /\ h_outcome = "none"

\* parse_directory calls parse_pdf on the next PDF; parse_pdf runs up to its
\* return (the output exists and force is not set, or the parser has no
\* aload_data) or up to the await
ParsePdfBegin ==
    /\ p_pc = "loop"
    /\ p_i <= MaxLabels
    /\ h_before' = p_out[p_i]
    /\ h_outcome' = "none"
    /\ IF ShouldSkip(p_out[p_i] # Null, force)
       THEN /\ p_result' = [NewResult EXCEPT !.success = TRUE, !.skipped = TRUE]
            /\ p_pc' = "returned"
            /\ UNCHANGED <<p_out, aload_calls>>
       ELSE IF ~has_aload
       THEN /\ p_result' = [NewResult EXCEPT
                               !.error = <<"parser must expose an aload_data coroutine">>]
            /\ p_out' = Unlink(p_out, p_i)
            /\ p_pc' = "returned"
            /\ UNCHANGED aload_calls
       ELSE /\ p_result' = NewResult
            /\ aload_calls' = [aload_calls EXCEPT ![p_i] = @ + 1]
            /\ p_pc' = "awaiting"
            /\ UNCHANGED p_out
    /\ UNCHANGED <<force, has_aload, p_i, p_stats, p_parsed, p_failed>>
    /\ UNCHANGED not_parse

\* parser.aload_data raises
ParserRaises(message) ==
    /\ p_pc = "awaiting"
    /\ h_outcome' = "raised"
    /\ ParseFailed(message)
    /\ UNCHANGED <<force, has_aload, p_i, aload_calls, p_stats, p_parsed, p_failed, h_before>>
    /\ UNCHANGED not_parse

\* parser.aload_data returns None or a list of documents; written: how much of the file
\* write_text wrote, "all", or "part" or "nothing" when it raised OSError
ParserReturns(answer, written) ==
    /\ p_pc = "awaiting"
    /\ IF answer.is_none \/ answer.list = <<>>
       THEN /\ h_outcome' = "nothing"
            /\ ParseFailed(<<"LlamaParse returned no documents">>)
       ELSE IF StripLen(CombinedText(answer.list)) = 0
       THEN /\ h_outcome' = "blank"
            /\ ParseFailed(<<"Parsed output is empty">>)
       ELSE LET documents == answer.list
                metadata == ProductMetadata(Labels[p_i], documents)
                content == BuildFrontmatter(metadata) \o CombinedText(documents)
                filled == [NewResult EXCEPT !.metadata = metadata,
                                            !.pages = InferPageCount(documents)]
            IN  IF written = "all"
                THEN /\ h_outcome' = "written"
                     /\ p_out' = [p_out EXCEPT ![p_i] = content]
                     /\ p_result' = [filled EXCEPT !.success = TRUE]
                     /\ p_pc' = "returned"
                ELSE /\ h_outcome' = "write_failed"
                     /\ p_result' = [filled EXCEPT !.error = <<"No space left on device">>]
                     /\ p_out' = Unlink(IF written = "part"
                                        THEN [p_out EXCEPT ![p_i] =
                                                 SubSeq(content, 1, Len(content) \div 2)]
                                        ELSE p_out, p_i)
                     /\ p_pc' = "returned"
    /\ UNCHANGED <<force, has_aload, p_i, aload_calls, p_stats, p_parsed, p_failed, h_before>>
    /\ UNCHANGED not_parse

\* parse_directory, after parse_pdf returned: stats and metadata_store
RecordResult ==
    /\ p_pc = "returned"
    /\ IF p_result.skipped
       THEN /\ p_stats' = [p_stats EXCEPT !.skipped = @ + 1]
            /\ UNCHANGED <<p_parsed, p_failed>>
       ELSE IF p_result.success
       THEN /\ p_stats' = [p_stats EXCEPT !.parsed = @ + 1]
            /\ p_parsed' = p_parsed \cup {p_i}
            /\ p_failed' = SelectSeq(p_failed, LAMBDA s : s # p_i)
       ELSE /\ p_stats' = [p_stats EXCEPT !.failed = @ + 1]
            /\ p_failed' = IF \E k \in 1..Len(p_failed) : p_failed[k] = p_i
                           THEN p_failed ELSE Append(p_failed, p_i)
            /\ UNCHANGED p_parsed
    /\ p_i' = p_i + 1
    /\ p_pc' = "loop"
    /\ UNCHANGED <<force, has_aload, p_out, p_result, aload_calls, h_before, h_outcome>>
    /\ UNCHANGED not_parse

\* save_metadata(metadata_store); return stats
SaveMetadata ==
    /\ p_pc = "loop"
    /\ p_i > MaxLabels
    /\ p_pc' = "done"
    /\ UNCHANGED <<force, has_aload, p_i, p_out, p_result, aload_calls, p_stats, p_parsed,
                   p_failed, h_before, h_outcome>>
    /\ UNCHANGED not_parse

\* ------------------------------------------------------------------------
\* Specifications
\* ------------------------------------------------------------------------

\* no part of the graph package, or of the ingestion package, is running
\* ------------------------------------------------------------------------
\* loader.py and queries.py: the entity loader and the lookups, each one
\* session.run or one transaction of statements run to completion, on a
\* store of their own
\* ------------------------------------------------------------------------

\* s.strip()
Strip(s) ==
    LET solid == {i \in 1..Len(s) : s[i] \notin Whitespace}
    IN  IF solid = {} THEN <<>> ELSE SubSeq(s, MinOf(solid), MaxOf(solid))

\* s.upper()
Upper(s) ==
    [i \in 1..Len(s) |->
        IF \E u \in DOMAIN UpperToLower : UpperToLower[u] = s[i]
        THEN CHOOSE u \in DOMAIN UpperToLower : UpperToLower[u] = s[i]
        ELSE s[i]]

\* name.lower().strip()
normalize_crop_name(name) == Strip(Lower(name))

\* name.lower().strip() with "'s" replaced by "s"
normalize_weed_name(name) == Replace(Strip(Lower(name)), <<"'", "s">>, <<"s">>)

\* The extracted JSON files the entity loader is run on.
JsonFiles ==
    <<[product_number |-> <<"1">>, product_name |-> <<"H", "a", "m", "m", "e", "r">>,
       active_constituent |-> <<"d", "i", "f", "l", "u", "f", "e", "n", "i", "c", "a", "n">>, mode_of_action_group |-> <<"f">>,
       registered_crops |-> <<<<"W", "h", "e", "a", "t">>>>,
       registered_weeds |-> <<<<"W", "i", "l", "d", " ", "R", "a", "d", "i", "s", "h">>, <<" ", "F", "a", "t", " ", "H", "e", "n">>>>,
       weed_control_entries |->
          <<[weed_common_name |-> <<"A", "n", "n", "u", "a", "l", " ", "R", "y", "e", "g", "r", "a", "s", "s">>, crop |-> <<"W", "h", "e", "a", "t">>, states |-> <<<<"W", "A">>>>],
            [weed_common_name |-> <<"A", "n", "n", "u", "a", "l", " ", "R", "y", "e", "g", "r", "a", "s", "s">>, crop |-> <<"C", "a", "n", "o", "l", "a">>, states |-> <<<<"N", "S", "W">>>>],
            [weed_common_name |-> <<"W", "i", "l", "d", " ", "R", "a", "d", "i", "s", "h">>, crop |-> <<"W", "h", "e", "a", "t">>, states |-> <<<<"W", "A">>, <<"N", "S", "W">>>>]>>],
      [product_number |-> <<"2">>, product_name |-> <<"A", "n", "v", "i", "l">>,
       active_constituent |-> <<>>, mode_of_action_group |-> <<>>,
       registered_crops |-> <<>>,
       registered_weeds |-> <<>>,
       weed_control_entries |->
          <<[weed_common_name |-> <<"P", "a", "t", "t", "e", "r", "s", "o", "n", "'", "s", " ", "C", "u", "r", "s", "e">>, crop |-> <<"C", "a", "n", "o", "l", "a">>, states |-> <<<<"V", "I", "C">>>>],
            [weed_common_name |-> <<"P", "a", "t", "t", "e", "r", "s", "o", "n", "'", "s", " ", "C", "u", "r", "s", "e">>, crop |-> <<"P", "a", "s", "t", "u", "r", "e">>, states |-> <<<<"W", "A">>>>],
            [weed_common_name |-> <<>>, crop |-> <<"W", "h", "e", "a", "t">>, states |-> <<>>]>>]>>

\* 1. MERGE (h:Herbicide {product_number}) SET h.product_name, ...
WriteHerbicide(s, data) ==
    MergeNode(s, Node("Herbicide", data.product_number),
              [product_name |-> data.product_name,
               active_constituent |-> data.active_constituent])

\* 2. MERGE (a:ActiveConstituent {name}) ... MATCH (h) MERGE (h)-[:CONTAINS]->(a)
WriteActive(s, data) ==
    IF data.active_constituent = <<>> THEN s
    ELSE MergeEdge(MergeNode(s, Node("ActiveConstituent", data.active_constituent),
                             [chemical_group |-> Null]),
                   "CONTAINS", Node("Herbicide", data.product_number),
                   Node("ActiveConstituent", data.active_constituent))

\* 3. MATCH (h) MATCH (m:ModeOfAction {group}) MERGE (h)-[:HAS_MODE_OF_ACTION]->(m)
WriteModeOfAction(s, data) ==
    IF data.mode_of_action_group = <<>> THEN s
    ELSE MergeEdge(s, "HAS_MODE_OF_ACTION", Node("Herbicide", data.product_number),
                   Node("ModeOfAction", Upper(data.mode_of_action_group)))

\* 4. MERGE (c:Crop {name}) SET c.display_name ... MERGE (h)-[:REGISTERED_FOR]->(c),
\*    for the crops i.. of registered_crops
RECURSIVE WriteRegisteredCrops(_, _, _)
WriteRegisteredCrops(s, data, i) ==
    IF i > Len(data.registered_crops) THEN s
    ELSE LET crop_name == data.registered_crops[i]
             c == Node("Crop", normalize_crop_name(crop_name))
         IN  WriteRegisteredCrops(
                MergeEdge(MergeNode(s, c, [display_name |-> crop_name]),
                          "REGISTERED_FOR", Node("Herbicide", data.product_number), c),
                data, i + 1)

\* 5. MERGE (w:Weed {common_name}) SET w.display_name, for the weeds i.. of
\*    registered_weeds
RECURSIVE WriteRegisteredWeeds(_, _, _)
WriteRegisteredWeeds(s, data, i) ==
    IF i > Len(data.registered_weeds) THEN s
    ELSE LET display_name == data.registered_weeds[i]
         IN  WriteRegisteredWeeds(
                MergeNode(s, Node("Weed", normalize_weed_name(display_name)),
                          [display_name |-> display_name]),
                data, i + 1)

\* A CONTROLS relationship carries its crop, the key of the MERGE, and of
\* the properties SET on it its states.
Controls(h, w, crop, states) ==
    [type |-> "CONTROLS", src |-> h, dst |-> w, crop |-> crop, states |-> states]

\* MATCH (h) MATCH (w) MERGE (h)-[r:CONTROLS {crop}]->(w) SET r.states = $states
MergeControls(s, h, w, crop, states) ==
    IF ~BagIn(h, s.nodes) \/ ~BagIn(w, s.nodes) THEN s
    ELSE LET same == {e \in EdgesOf(s, "CONTROLS") : e.src = h /\ e.dst = w /\ e.crop = crop}
             rest == [e \in BagToSet(s.edges) \ same |-> s.edges[e]]
         IN  [s EXCEPT !.edges = rest (+) SetToBag({Controls(h, w, crop, states)})]

\* MATCH (h) MATCH (s:State {code}) MERGE (h)-[:REGISTERED_IN]->(s), for the
\* states i.. of the entry
RECURSIVE WriteRegisteredIn(_, _, _, _)
WriteRegisteredIn(s, h, states, i) ==
    IF i > Len(states) THEN s
    ELSE WriteRegisteredIn(MergeEdge(s, "REGISTERED_IN", h, Node("State", Upper(states[i]))),
                           h, states, i + 1)

\* 6. the Weed node, the Crop node and the CONTROLS relationship of the
\*    entries i.. of weed_control_entries
RECURSIVE WriteControlEntries(_, _, _)
WriteControlEntries(s, data, i) ==
    IF i > Len(data.weed_control_entries) THEN s
    ELSE LET entry == data.weed_control_entries[i]
             weed_normalized == normalize_weed_name(entry.weed_common_name)
             crop_normalized == normalize_crop_name(entry.crop)
             h == Node("Herbicide", data.product_number)
             w == Node("Weed", weed_normalized)
             s1 == MergeNode(s, w, [display_name |-> entry.weed_common_name])
             s2 == MergeNode(s1, Node("Crop", crop_normalized), [display_name |-> entry.crop])
             s3 == MergeControls(s2, h, w, crop_normalized, entry.states)
         IN  IF weed_normalized = <<>> \/ crop_normalized = <<>>
             THEN WriteControlEntries(s, data, i + 1)
             ELSE WriteControlEntries(WriteRegisteredIn(s3, h, entry.states, 1), data, i + 1)

\* the store load_from_json leaves
load_from_json(s, data) ==
    WriteControlEntries(
        WriteRegisteredWeeds(
            WriteRegisteredCrops(
                WriteModeOfAction(WriteActive(WriteHerbicide(s, data), data), data),
                data, 1),
            data, 1),
        data, 1)

\* A text block as chunk_docling_json yields it: the block number order of a
\* label without sections, tables or parts
LabelChunk(product_number, source_file, order, text) ==
    [chunk_id |-> ChunkId(product_number, <<"t">> \o Str(order), -1, order),
     text |-> text, chunk_type |-> "metadata", sequence_order |-> order,
     source_file |-> source_file, product_number |-> product_number,
     parent_section |-> NoSection, table_id |-> <<"t">> \o Str(order), row_count |-> 0,
     column_count |-> 0, headers |-> <<>>, page_number |-> -1]

LabelTexts ==
    <<<<<<"C", "o", "n", "t", "r", "o", "l", "s", " ", "w", "i", "l", "d", " ", "r", "a", "d", "i", "s", "h", " ", "i", "n", " ", "w", "h", "e", "a", "t", " ", "c", "r", "o", "p", "s">>,
        <<"C", "o", "n", "t", "r", "o", "l", "s", " ", "w", "i", "l", "d", "r", "a", "d", "i", "s", "h", " ", "a", "n", "d", " ", "c", "a", "p", "e", "w", "e", "e", "d">>,
        <<"W", "i", "l", "d", "TAB", "R", "a", "d", "i", "s", "h", " ", "s", "e", "e", "d", "l", "i", "n", "g", "s", " ", "i", "n", " ", "l", "u", "p", "i", "n", "s">>,
        <<"w", "i", "l", "d", "NL", "r", "a", "d", "i", "s", "h", " ", "a", "t", " ", "t", "h", "e", " ", "2", " ", "l", "e", "a", "f", " ", "s", "t", "a", "g", "e">>,
        <<"F", "a", "t", " ", "h", "e", "n", " ", "a", "n", "d", " ", "b", "r", "o", "m", "e", " ", " ", "g", "r", "a", "s", "s", " ", "i", "n", " ", "c", "a", "n", "o", "l", "a">>>>,
      <<<<"A", "n", "n", "u", "a", "l", " ", "r", "y", "e", "g", "r", "a", "s", "s", " ", "i", "n", " ", "f", "i", "e", "l", "d", " ", "p", "e", "a", "s">>,
        <<"P", "a", "t", "t", "e", "r", "s", "o", "n", "'", "s", " ", "c", "u", "r", "s", "e", " ", "i", "n", " ", "p", "a", "s", "t", "u", "r", "e">>>>>>

\* the chunks of the labels the lookups are made on
LabelDocuments ==
    [d \in DOMAIN LabelTexts |->
        [k \in DOMAIN LabelTexts[d] |->
            LabelChunk(Str(d), FileName(Str(d)[1]), k - 1, LabelTexts[d][k])]]

LabelMentions ==
    [d \in DOMAIN LabelDocuments |->
        [k \in DOMAIN LabelDocuments[d] |-> extract_entity_mentions(LabelDocuments[d][k].text)]]

\* the store load_chunks_from_docling leaves when it runs to completion, with
\* link_entities, on the label d
LoadLabel(s, d, now) ==
    LET cs == LabelDocuments[d]
    IN  LoadChunksFrom(WriteHasLabel(WriteDocument(s, cs, cs[1].source_file, now), cs),
                       cs, LabelMentions[d], 1, TRUE)

\* Python's None, and the falsy values of an optional string parameter
NoArg == <<"None">>

IsGiven(arg) == arg # NoArg /\ arg # <<>>

\* toLower(w.common_name) CONTAINS toLower($weed_name)
ByCommonName(s, w, name) == Contains(Lower(w.key), Lower(name))

\* toLower(w.display_name) CONTAINS toLower($weed_name)
ByDisplayName(s, w, name) ==
    /\ Prop(s, w, "display_name") # Null
    /\ Contains(Lower(Prop(s, w, "display_name")), Lower(name))

\* AND toLower(r.crop) CONTAINS toLower($crop), when crop is given
CropFilter(r, crop) == IsGiven(crop) => Contains(Lower(r.crop), Lower(crop))

\* AND $state IN r.states, when state is given; the parameter is state.upper()
StateFilter(r, state) ==
    IsGiven(state) => \E i \in DOMAIN r.states : r.states[i] = Upper(state)

\* The WHERE clause as Cypher reads it: AND binds tighter than OR, and the
\* filters are appended after the second operand of the OR.
WeedWhere(s, r, name, crop, state) ==
    \/ ByCommonName(s, r.dst, name)
    \/ (ByDisplayName(s, r.dst, name) /\ CropFilter(r, crop) /\ StateFilter(r, state))

\* OPTIONAL MATCH (h)-[:HAS_MODE_OF_ACTION]->(m): the groups of h, null
\* where there is none
GroupsOfHerbicide(s, h) ==
    LET ms == {e.dst.key : e \in {x \in EdgesOf(s, "HAS_MODE_OF_ACTION") : x.src = h}}
    IN  IF ms = {} THEN {Null} ELSE ms

\* the records of the RETURN clause, one for each row
HerbicideRecords(s, name, crop, state) ==
    UNION {{[herbicide |-> Prop(s, r.src, "product_name"), product_number |-> r.src.key,
             active |-> Prop(s, r.src, "active_constituent"), moa_group |-> g,
             weed |-> r.dst.key, crop |-> r.crop, states |-> r.states] :
                g \in GroupsOfHerbicide(s, r.src)} :
           r \in {x \in EdgesOf(s, "CONTROLS") : WeedWhere(s, x, name, crop, state)}}

\* the characters of the model in code point order
CodePoints ==
    <<"TAB", "NL", " ", "'", "(", ")", "-", ".", "/",
      "0", "1", "2", "3", "4", "5", "6", "7", "8", "9", ":",
      "A", "B", "C", "D", "E", "F", "G", "H", "I", "J", "K", "L", "M",
      "N", "O", "P", "Q", "R", "S", "T", "U", "V", "W", "X", "Y", "Z", "[", "]",
      "a", "b", "c", "d", "e", "f", "g", "h", "i", "j", "k", "l", "m",
      "n", "o", "p", "q", "r", "s", "t", "u", "v", "w", "x", "y", "z", "|">>

CodePoint(c) == CHOOSE i \in DOMAIN CodePoints : CodePoints[i] = c

\* a <= b as Cypher orders strings
RECURSIVE StringLeq(_, _)
StringLeq(a, b) ==
    IF a = <<>> THEN TRUE
    ELSE IF b = <<>> THEN FALSE
    ELSE IF a[1] = b[1] THEN StringLeq(Tail(a), Tail(b))
    ELSE CodePoint(a[1]) < CodePoint(b[1])

\* ORDER BY h.product_name, r.crop
OrderedBefore(x, y) ==
    IF x.herbicide = y.herbicide THEN StringLeq(x.crop, y.crop)
    ELSE StringLeq(x.herbicide, y.herbicide)

\* the lists of the members of S, in every order
Orderings(S) ==
    {seq \in [1..Cardinality(S) -> S] : \A i, j \in DOMAIN seq : i # j => seq[i] # seq[j]}

\* find_herbicides_for_weed(weed_name, crop, state): the lists the query can
\* return, records of equal keys in any order
find_herbicides_for_weed(s, name, crop, state) ==
    {seq \in Orderings(HerbicideRecords(s, name, crop, state)) :
        \A i, j \in DOMAIN seq : i < j => OrderedBefore(seq[i], seq[j])}

\* (a)-[:NEXT*1..n]->(b): a path of one to n NEXT relationships, none of them
\* taken twice
RECURSIVE Reaches(_, _, _, _, _)
Reaches(s, a, b, n, used) ==
    /\ n >= 1
    /\ \E e \in EdgesOf(s, "NEXT") \ used :
          /\ e.src = a
          /\ (e.dst = b \/ Reaches(s, e.dst, b, n - 1, used \cup {e}))

\* (mutation) the upper bound of the path length is left out: [:NEXT*1..]
WithinAnyHops(s, a, b, n) == Reaches(s, a, b, Cardinality(EdgesOf(s, "NEXT")), {})

\* [:NEXT*1..%d] with context_window for %d
WithinHops(s, a, b, n) == Reaches(s, a, b, n, {})

\* {id: p.chunk_id, text: p.text}
ContextEntry(s, c) == [id |-> c.key, text |-> Prop(s, c, "text")]

\* result.single() on no record
NoRecord == [found |-> FALSE]

\* get_chunk_context(chunk_id, context_window): the values the call can
\* return; collect() lists its nodes in the order the rows come
get_chunk_context(s, chunk_id, context_window) ==
    LET center == Node("Chunk", chunk_id)
        prevs == {p \in NodesOf(s, "Chunk") : WithinHops(s, p, center, context_window)}
        nexts == {n \in NodesOf(s, "Chunk") : WithinHops(s, center, n, context_window)}
    IN  IF ~BagIn(center, s.nodes) THEN {NoRecord}
        ELSE {[found |-> TRUE, chunk_id |-> chunk_id, text |-> Prop(s, center, "text"),
               chunk_type |-> Prop(s, center, "chunk_type"),
               section |-> Prop(s, center, "parent_section"),
               product_number |-> Prop(s, center, "product_number"),
               prev_chunks |-> [i \in DOMAIN ps |-> ContextEntry(s, ps[i])],
               next_chunks |-> [i \in DOMAIN ns |-> ContextEntry(s, ns[i])]] :
                  ps \in Orderings(prevs), ns \in Orderings(nexts)}

\* the widest context window of a call
MaxWindow == 2

\* the arguments of the calls
WeedNameArgs == {<<"r", "y", "e", "g", "r", "a", "s", "s">>, <<"P", "a", "t", "t", "e", "r", "s", "o", "n", "'", "s">>, <<"R", "A", "D", "I", "S", "H">>}

CropArgs == {NoArg, <<"w", "h", "e", "a", "t">>, <<"C", "a", "n", "o", "l", "a">>}

StateArgs == {NoArg, <<"w", "a">>, <<"v", "i", "c">>}

UnknownChunkId == <<"9", "-", "t", "0", "-", "md5(", "9", "-", "t", "0", "-", "0", ")">>

ChunkIdArgs ==
    {UnknownChunkId} \cup UNION {{LabelDocuments[d][k].chunk_id : k \in DOMAIN LabelDocuments[d]} :
                                    d \in DOMAIN LabelDocuments}

NoCall == [fn |-> "none"]

\* no call has been made
LookupIdle ==
    /\ k_store = EmptyStore
    /\ k_call = NoCall
    /\ k_result = NoRecord

\* load_from_json(json_path) for the file number f
LoadFromJson(f) ==
    /\ k_store' = load_from_json(k_store, JsonFiles[f])
    /\ k_call' = [fn |-> "load_from_json", file |-> f]
    /\ k_result' = NoRecord
    /\ UNCHANGED <<chunker_vars, loader_vars, query_vars, runs_vars, ingestion_vars>>

\* load_chunks_from_docling(docling_path) for the label number d
LoadLabelChunks(d) ==
    /\ k_store' = LoadLabel(k_store, d, 1)
    /\ k_call' = [fn |-> "load_chunks_from_docling", label |-> d]
    /\ k_result' = NoRecord
    /\ UNCHANGED <<chunker_vars, loader_vars, query_vars, runs_vars, ingestion_vars>>

\* extract_entity_mentions(text)
ExtractEntityMentions(d, k) ==
    /\ k_call' = [fn |-> "extract_entity_mentions", text |-> LabelDocuments[d][k].text]
    /\ k_result' = LabelMentions[d][k]
    /\ UNCHANGED k_store
    /\ UNCHANGED <<chunker_vars, loader_vars, query_vars, runs_vars, ingestion_vars>>

\* find_herbicides_for_weed(weed_name, crop, state), moa_group left at None
FindHerbicidesForWeed(name, crop, state) ==
    /\ k_call' = [fn |-> "find_herbicides_for_weed", weed_name |-> name, crop |-> crop,
                  state |-> state]
    /\ \E records \in find_herbicides_for_weed(k_store, name, crop, state) :
          k_result' = [records |-> records]
    /\ UNCHANGED k_store
    /\ UNCHANGED <<chunker_vars, loader_vars, query_vars, runs_vars, ingestion_vars>>

\* get_chunk_context(chunk_id, context_window)
GetChunkContext(chunk_id, context_window) ==
    /\ k_call' = [fn |-> "get_chunk_context", chunk_id |-> chunk_id,
                  context_window |-> context_window]
    /\ k_result' \in get_chunk_context(k_store, chunk_id, context_window)
    /\ UNCHANGED k_store
    /\ UNCHANGED <<chunker_vars, loader_vars, query_vars, runs_vars, ingestion_vars>>

NextLookup ==
    \/ \E f \in DOMAIN JsonFiles : LoadFromJson(f)
    \/ \E d \in DOMAIN LabelDocuments : LoadLabelChunks(d)
    \/ \E d \in DOMAIN LabelDocuments : \E k \in DOMAIN LabelDocuments[d] :
          ExtractEntityMentions(d, k)
    \/ \E name \in WeedNameArgs, crop \in CropArgs, state \in StateArgs :
          FindHerbicidesForWeed(name, crop, state)
    \/ \E chunk_id \in ChunkIdArgs, context_window \in 1..MaxWindow :
          GetChunkContext(chunk_id, context_window)


GraphIdle == store = EmptyStore /\ LoaderAtRest /\ ChunkerIdle /\ QueryIdle /\ RunsIdle /\ LookupIdle

IngestionIdle == ResumeIdle /\ ExtractIdle /\ ParseIdle


InitChunker == ChunkerInit /\ store = EmptyStore /\ LoaderAtRest /\ QueryIdle /\ RunsIdle /\ IngestionIdle /\ LookupIdle

SpecChunker == InitChunker /\ [][ChunkerNext]_vars

\* The entity loader, the chunk loader and the lookups, in any order.
InitLookup ==
    /\ k_store = EmptyStore /\ k_call = NoCall /\ k_result = NoRecord
    /\ store = EmptyStore /\ LoaderAtRest /\ ChunkerIdle /\ QueryIdle /\ RunsIdle /\ IngestionIdle

SpecLookup == InitLookup /\ [][NextLookup]_vars

Init == store \in InitialStores /\ LoaderAtRest /\ ChunkerIdle /\ QueryIdle /\ RunsIdle /\ IngestionIdle /\ LookupIdle

Next ==
    \/ \E limit \in 0..(Len(Files) - 1), link \in BOOLEAN : DirCall(limit, link)
    \/ RaiseParse
    \/ LoadNoChunks
    \/ LoadBegin
    \/ MergeDocument
    \/ LinkHerbicide
    \/ UpsertChunk
    \/ LinkNext
    \/ LinkWeed
    \/ LinkCrop
    \/ RaiseStore
    \/ LoadReturn
    \/ DirReturn

Spec == Init /\ [][Next]_vars

\* the directory calls before the queries: of the first file or of all
QueryLimits == {0, 1}

\* loads without store failures, and queries between them
NextQuery ==
    \/ \E limit \in QueryLimits, link \in BOOLEAN : DirCall(limit, link)
    \/ RaiseParse
    \/ LoadNoChunks
    \/ LoadBegin
    \/ MergeDocument
    \/ LinkHerbicide
    \/ UpsertChunk
    \/ LinkNext
    \/ LinkWeed
    \/ LinkCrop
    \/ LoadReturn
    \/ DirReturn
    \/ \E q \in QueryTexts, kk \in Ks, eg \in BOOLEAN, ct \in ChunkTypes :
          HybridCall(q, kk, eg, ct)
    \/ VectorSearch
    \/ Expand
    \/ HybridReturn
    \/ \E name \in WeedNames, kk \in Ks : FindCall(name, kk)
    \/ FindRaise
    \/ FindRun
    \/ FindReturn

\* the queries read stores the loader has filled from the empty store or
\* from the store of the entity loader
InitQuery ==
    /\ store \in {EmptyStore, EntityStore}
    /\ LoaderAtRest /\ ChunkerIdle /\ QueryIdle /\ RunsIdle /\ IngestionIdle /\ LookupIdle

SpecQuery == InitQuery /\ [][NextQuery]_vars

\* Two calls of load_chunks_from_docling, on any two files, at the same time.
InitRuns ==
    /\ store = EmptyStore /\ LoaderAtRest /\ ChunkerIdle /\ QueryIdle /\ IngestionIdle /\ LookupIdle
    /\ shared \in InitialStores
    /\ r_init = shared
    /\ r_file \in [Runs -> DOMAIN Files]
    /\ r_link \in [Runs -> BOOLEAN]
    /\ r_pc = [r \in Runs |-> "begin"]
    /\ r_chunks = [r \in Runs |-> <<>>]
    /\ r_mentions = [r \in Runs |-> <<>>]
    /\ r_i = [r \in Runs |-> 0]
    /\ r_weeds = [r \in Runs |-> {}]
    /\ r_crops = [r \in Runs |-> {}]
    /\ r_turns = <<>>

NextRuns ==
    \E r \in Runs :
        \/ RunBegin(r)
        \/ RunDocument(r)
        \/ RunHerbicide(r)
        \/ RunChunk(r)
        \/ RunNext(r)
        \/ RunWeed(r)
        \/ RunCrop(r)

SpecRuns == InitRuns /\ [][NextRuns]_vars

\* A run of resume_gemini.py over up to MaxPdfs PDFs.
InitResume ==
    /\ GraphIdle
    /\ ExtractIdle
    /\ ParseIdle
    /\ m_pc = "submit"
    /\ total \in 0..MaxPdfs
    /\ max_retries \in RetryLimits
    /\ base_delay \in Delays
    /\ max_concurrent \in PoolSizes
    /\ rs_pc = [f \in Pdfs |-> "none"]
    /\ attempt = [f \in Pdfs |-> 0]
    /\ rs_result = [f \in Pdfs |-> "none"]
    /\ success = 0
    /\ h_outcomes = [f \in Pdfs |-> <<>>]
    /\ h_waits = [f \in Pdfs |-> <<>>]

NextResume ==
    \/ MainReturnEmpty
    \/ \E f \in Pdfs : Submit(f)
    \/ \E f \in Pdfs, output_exists \in BOOLEAN : Start(f, output_exists)
    \/ \E f \in Pdfs : AttemptSucceeds(f)
    \/ \E f \in Pdfs, err \in Stderrs : AttemptFails(f, err)
    \/ \E f \in Pdfs : WakeUp(f)
    \/ \E f \in Pdfs : Collect(f)
    \/ MainEnd

SpecResume == InitResume /\ [][NextResume]_vars

\* every call of subprocess.run returns, every sleep ends, and the pool
\* runs the tasks it was given
SpecResumeFair == SpecResume /\ WF_vars(NextResume)

\* A run of process_directory over up to MaxMdFiles markdown files.
InitExtract ==
    /\ GraphIdle
    /\ ResumeIdle
    /\ ParseIdle
    /\ e_pc = "loop"
    /\ e_total \in 0..MaxMdFiles
    /\ e_i = 1
    /\ worker = "none"
    /\ hangs = FALSE
    /\ results = NoResults
    /\ h_hung = {}

NextExtract ==
    \/ SkipProcessed
    \/ SkipShort
    \/ \E never_returns \in BOOLEAN : CallGemini(never_returns)
    \/ GeminiReturns
    \/ GeminiRaises
    \/ \E write_ok \in BOOLEAN : ResultReturned(write_ok)
    \/ ResultRaised
    \/ ResultTimeout
    \/ ShutdownReturns
    \/ WriteSummary

SpecExtract == InitExtract /\ [][NextExtract]_vars

\* the main thread and the thread of the pool both run when they can, and
\* the timeout of future.result expires
SpecExtractFair == SpecExtract /\ WF_vars(NextExtract)

\* A run of parse_directory over MaxLabels PDFs, some of them parsed before.
InitParse ==
    /\ GraphIdle
    /\ ResumeIdle
    /\ ExtractIdle
    /\ p_pc = "loop"
    /\ force \in BOOLEAN
    /\ has_aload \in BOOLEAN
    /\ p_i = 1
    /\ p_out \in [LabelIds -> {Null, OldContent}]
    /\ p_result = NewResult
    /\ aload_calls = [i \in LabelIds |-> 0]
    /\ p_stats = [parsed |-> 0, skipped |-> 0, failed |-> 0]
    /\ p_parsed = {i \in LabelIds : p_out[i] # Null}
    /\ p_failed \in {<<>>, <<1>>, <<2, 1>>}
    /\ h_before = Null
    /\ h_outcome = "none"

NextParse ==
    \/ ParsePdfBegin
    \/ \E message \in ParserErrors : ParserRaises(message)
    \/ \E answer \in Answers, written \in {"all", "part", "nothing"} :
           ParserReturns(answer, written)
    \/ RecordResult
    \/ SaveMetadata

SpecParse == InitParse /\ [][NextParse]_vars

\* ------------------------------------------------------------------------
\* Properties of the chunker
\* ------------------------------------------------------------------------

\* the table block at position i of the document being chunked
BlockAt(i) == Tables[c_tables[i]]

\* the chunks yielded for the block at position i
ChunksFrom(i) == SelectSeq([k \in DOMAIN yielded |-> [c |-> yielded[k], from |-> yield_from[k]]],
                           LAMBDA e : e.from = i)

ChunkerDone == c_pc = "idle" /\ c_run >= 1

\* C1: the chunks a call has yielded carry the sequence_order values
\* 0, 1, ..., n-1 in the order of emission, whatever blocks were skipped or
\* split.
C1_SequenceOrderIsPosition ==
    \A k \in DOMAIN yielded : yielded[k].sequence_order = k - 1

\* a finished call on a document with an empty block, a too-short block and
\* a split table
C1_Witness ==
    /\ ChunkerDone
    /\ \E i \in DOMAIN c_tables : IsEmptyBlock(BlockAt(i))
    /\ \E i \in DOMAIN c_tables : ~IsEmptyBlock(BlockAt(i)) /\ IsShortBlock(BlockAt(i))
    /\ \E i \in DOMAIN c_tables :
          /\ ~IsShortBlock(BlockAt(i))
          /\ IsLarge(BlockAt(i), c_max)
          /\ i < Len(c_tables)
    /\ Len(yielded) >= 4

\* the header row as it is rendered at the start of a sub-chunk
HeaderLine(table) == Join(<<" ", "|", " ">>, table.rows[1]) \o <<"NL">>

StartsWith(s, prefix) == Len(s) >= Len(prefix) /\ SubSeq(s, 1, Len(prefix)) = prefix

\* the text of a sub-chunk after its header line
DataPart(table, text) ==
    IF Headers(table) # <<>> THEN SubSeq(text, Len(HeaderLine(table)) + 1, Len(text)) ELSE text

\* the sum of the row_count values of the first n entries of cs
RECURSIVE RowCountSum(_, _)
RowCountSum(cs, n) == IF n = 0 THEN 0 ELSE RowCountSum(cs, n - 1) + cs[n].c.row_count

\* The block at position i was split: more than one chunk, the row counts add
\* up to the data rows, each sub-chunk holds the next row_count data rows,
\* whole and in order, and each starts with the header row if there is one.
SplitWellFormed(i) ==
    LET table == BlockAt(i)
        cs    == ChunksFrom(i)
        data  == DataRows(table)
    IN  /\ Len(cs) > 1
        /\ RowCountSum(cs, Len(cs)) = Len(data)
        /\ \A k \in DOMAIN cs :
              /\ cs[k].c.row_count >= 1
              /\ DataPart(table, cs[k].c.text)
                    = RowsAsText(SubSeq(data, RowCountSum(cs, k - 1) + 1, RowCountSum(cs, k)))
              /\ Headers(table) # <<>> => StartsWith(cs[k].c.text, HeaderLine(table))

\* C7 as claimed: every table with more words than max_chunk_tokens and more
\* than 3 rows is emitted as more than one chunk, the row counts summing to
\* the data rows, every data row whole in exactly one sub-chunk in order, the
\* header row at the start of every sub-chunk.
C7_AsClaimed ==
    ChunkerDone =>
        \A i \in DOMAIN c_tables : IsLarge(BlockAt(i), c_max) => SplitWellFormed(i)

\* C7 amended: the same, for the tables whose rendered text, stripped, is at
\* least 20 characters long (a shorter block is skipped before the split).
C7_SplitOfLongEnoughTable ==
    ChunkerDone =>
        \A i \in DOMAIN c_tables :
            IsLarge(BlockAt(i), c_max) /\ ~IsShortBlock(BlockAt(i)) => SplitWellFormed(i)

\* a finished call that split a table with a header row into sub-chunks of
\* different sizes, and one without a header row
C7_Witness ==
    /\ ChunkerDone
    /\ \E i \in DOMAIN c_tables :
          /\ IsLarge(BlockAt(i), c_max) /\ ~IsShortBlock(BlockAt(i))
          /\ Headers(BlockAt(i)) # <<>>
          /\ Len(ChunksFrom(i)) >= 2
    /\ \E i \in DOMAIN c_tables :
          /\ IsLarge(BlockAt(i), c_max) /\ ~IsShortBlock(BlockAt(i))
          /\ Headers(BlockAt(i)) = <<>>
          /\ \E k \in DOMAIN ChunksFrom(i) :
                ChunksFrom(i)[k].c.row_count # ChunksFrom(i)[1].c.row_count

\* C8: a later call on the same document with the same max_chunk_tokens
\* yields the same chunks as the first call did: the same number, and the
\* same chunk_id, text, chunk_type, parent_section and sequence_order at
\* every position.
C8_SecondRunYieldsTheSame ==
    (c_pc = "idle" /\ c_run >= 2) =>
        /\ Len(yielded) = Len(c_first)
        /\ \A k \in DOMAIN yielded :
              /\ yielded[k].chunk_id = c_first[k].chunk_id
              /\ yielded[k].text = c_first[k].text
              /\ yielded[k].chunk_type = c_first[k].chunk_type
              /\ yielded[k].parent_section = c_first[k].parent_section
              /\ yielded[k].sequence_order = c_first[k].sequence_order

\* a second call has finished on a document that yields several chunks, one
\* of them under a carried section label
C8_Witness ==
    /\ c_pc = "idle" /\ c_run >= 2
    /\ Len(yielded) >= 2
    /\ \E k \in DOMAIN yielded : yielded[k].parent_section # NoSection

\* row i of the table has one of the weed names in its first column
KeywordRow(table, i) ==
    /\ table.rows[i] # <<>>
    /\ \E ind \in weed_indicators : Contains(Lower(table.rows[i][1]), ind)

\* row i of the table has a rate (digits, mL/ha, g/ha or L/ha) in some cell
RateRow(table, i) ==
    \E j \in DOMAIN table.rows[i] : SearchAny(RATE_PATTERN, Lower(table.rows[i][j]))

\* every chunk, at least one, emitted for the block at position i is a weed_table
TypedWeedTable(i) ==
    /\ ChunksFrom(i) # <<>>
    /\ \A k \in DOMAIN ChunksFrom(i) : ChunksFrom(i)[k].c.chunk_type = "weed_table"

NeverWeedTable(i) ==
    \A k \in DOMAIN ChunksFrom(i) : ChunksFrom(i)[k].c.chunk_type # "weed_table"

\* C13 as claimed: an emitted block of at least 3 rows with a weed name in
\* the first column of some row, or a rate in some cell of some row, is typed
\* weed_table; a block of fewer than 3 rows never is.
C13_AsClaimed ==
    ChunkerDone =>
        \A i \in DOMAIN c_tables :
            LET table == BlockAt(i)
            IN  /\ (/\ Len(table.rows) >= 3
                    /\ ~IsShortBlock(table)
                    /\ \E n \in DOMAIN table.rows : KeywordRow(table, n) \/ RateRow(table, n))
                   => TypedWeedTable(i)
                /\ Len(table.rows) < 3 => NeverWeedTable(i)

\* C13 amended: an emitted block of at least 3 rows with a weed name in the
\* first column of one of its first five rows, or a rate in some cell of one
\* of its first five rows, is typed weed_table whatever its section; every
\* other block is never typed weed_table, a block of fewer than 3 rows
\* among them.
C13_FirstFiveRowsDecide ==
    ChunkerDone =>
        \A i \in DOMAIN c_tables :
            LET table == BlockAt(i)
            IN  IF /\ Len(table.rows) >= 3
                   /\ \E n \in DOMAIN table.rows :
                         n <= 5 /\ (KeywordRow(table, n) \/ RateRow(table, n))
                THEN IsShortBlock(table) \/ TypedWeedTable(i)
                ELSE NeverWeedTable(i)

\* a finished call has emitted a weed_table chunk under the section
\* directions_for_use, chunks of another type for a block whose sixth row
\* alone names a weed, and a chunk for a block of two rows that name weeds
C13_Witness ==
    /\ ChunkerDone
    /\ \E i \in DOMAIN c_tables :
          /\ TypedWeedTable(i)
          /\ SectionOf(BlockAt(i)) = "directions_for_use"
    /\ \E i \in DOMAIN c_tables :
          /\ Len(BlockAt(i).rows) > 5
          /\ KeywordRow(BlockAt(i), 6)
          /\ ChunksFrom(i) # <<>> /\ NeverWeedTable(i)
    /\ \E i \in DOMAIN c_tables :
          /\ Len(BlockAt(i).rows) = 2
          /\ KeywordRow(BlockAt(i), 1) /\ RateRow(BlockAt(i), 2)
          /\ ChunksFrom(i) # <<>> /\ NeverWeedTable(i)

\* ------------------------------------------------------------------------
\* Properties of load_chunks_from_docling and load_chunks_directory
\* ------------------------------------------------------------------------

\* a load of a document with chunks has made all its writes
LoadDone == l_pc = "return" /\ chunks # <<>>

\* C2: when load_chunks_from_docling has completed on a document right after
\* a completed load of the same document with the same link_entities, the
\* store holds the nodes and relationships it held when this second load
\* started, each as many times: the second load created nothing.
C2_SecondLoadCreatesNothing == (LoadDone /\ h_repeat) => Graph(store) = Graph(h_start)

\* a second load in a row has completed on a document of three chunks whose
\* mentions are linked to Weed nodes
C2_Witness ==
    /\ LoadDone /\ h_repeat
    /\ Len(chunks) >= 3
    /\ EdgesOf(store, "MENTIONS") # {}
    /\ EdgesOf(store, "HAS_LABEL") # {}

\* C3: when a load of a document with n >= 1 chunks that started on the empty
\* store has completed, the store holds one Document node, one Chunk node
\* per chunk, n of them, one CONTAINS_CHUNK relationship from the Document
\* to each, and as NEXT relationships exactly chunk[i] -> chunk[i+1] for
\* the n - 1 pairs of consecutive chunks, each once.
C3_OneDocumentAndOneChain ==
    (LoadDone /\ h_start = EmptyStore) =>
        LET n == Len(chunks)
            doc == DocumentNode(chunks[1].product_number)
            chain == {Edge("NEXT", ChunkNode(chunks[i]), ChunkNode(chunks[i + 1])) :
                         i \in 1..(n - 1)}
            contains == {Edge("CONTAINS_CHUNK", doc, ChunkNode(chunks[i])) : i \in 1..n}
        IN  /\ NodesOf(store, "Document") = {doc}
            /\ CopiesIn(doc, store.nodes) = 1
            /\ NodesOf(store, "Chunk") = {ChunkNode(chunks[i]) : i \in 1..n}
            /\ Cardinality(NodesOf(store, "Chunk")) = n
            /\ \A c \in NodesOf(store, "Chunk") : CopiesIn(c, store.nodes) = 1
            /\ EdgesOf(store, "CONTAINS_CHUNK") = contains
            /\ EdgesOf(store, "NEXT") = chain
            /\ Cardinality(chain) = n - 1
            /\ \A e \in chain \cup contains : CopiesIn(e, store.edges) = 1

\* a load of a document of three chunks into the empty store has completed
C3_Witness == LoadDone /\ h_start = EmptyStore /\ Len(chunks) >= 3

\* C9: when load_chunks_directory returns, the errors list has one entry for
\* every load that raised, in the order they raised, each with the name of
\* its file; load_chunks_from_docling was called on every file of the list;
\* and files_processed + len(errors) is the number of files it was called on.
C9_ErrorsAreRecordedAndLoopGoesOn ==
    (l_pc = "dir_return") =>
        /\ Len(total_stats.errors) = Len(h_raised)
        /\ \A k \in DOMAIN h_raised : total_stats.errors[k].file = Files[h_raised[k]].name
        /\ h_attempted = d_files
        /\ total_stats.files_processed + Len(total_stats.errors) = Len(h_attempted)

\* a directory call over all files returns after the load of the first file
\* raised in a store write and a later file raised in parsing
C9_Witness ==
    /\ l_pc = "dir_return"
    /\ Len(d_files) = Len(Files)
    /\ Len(h_raised) = 2
    /\ h_raised[1] = 1
    /\ total_stats.files_processed >= 2

\* C10: when a load of a document has completed after a load of the same
\* document was interrupted by an exception in one of its store writes, the
\* store holds the nodes and relationships, each as many times, that one
\* uninterrupted load would have left from the store the interrupted load
\* started on.
C10_RerunRepairsInterruptedLoad ==
    (LoadDone /\ h_ep_cuts >= 1) =>
        Graph(store) = Graph(FullLoad(h_ep_store, l_file, link_entities, d_runs))

\* the rerun has completed after a load that was interrupted when it had
\* written the Document, HAS_LABEL, the first chunk and some of its mentions
C10_Witness ==
    /\ LoadDone /\ h_ep_cuts >= 1
    /\ h_cut_writes >= 4
    /\ EdgesOf(store, "MENTIONS") # {}

\* the weed names of WEED_PATTERNS that are one plain word
SingleWordWeeds ==
    {WEED_PATTERNS[i] : i \in {j \in DOMAIN WEED_PATTERNS :
        \A k \in DOMAIN WEED_PATTERNS[j] :
            WEED_PATTERNS[j][k] \notin {"WS*", "D+", "AZ"} \cup DOMAIN OptionalChar}}

\* the Weed nodes whose common_name or display_name, lower-cased, contains name
WeedsNamed(s, name) ==
    {w \in NodesOf(s, "Weed") :
        \/ Contains(Lower(w.key), name)
        \/ Contains(Lower(s.props[w].display_name), name)}

\* C14: when a load with link_entities has completed, every chunk whose
\* text contains, in any letter case, one of the single-word weed names has
\* a MENTIONS relationship to every Weed node whose lower-cased common_name
\* or display_name contains that name.
C14_MentionsWhateverTheCase ==
    (LoadDone /\ link_entities) =>
        \A i \in DOMAIN chunks :
            \A name \in SingleWordWeeds :
                Contains(Lower(chunks[i].text), name) =>
                    \A w \in WeedsNamed(store, name) :
                        CopiesIn(Edge("MENTIONS", ChunkNode(chunks[i]), w), store.edges) >= 1

\* a load has linked a chunk that reads "Annual Ryegrass" to the Weed node
\* whose common_name is "annual ryegrass"
C14_Witness ==
    /\ LoadDone /\ link_entities
    /\ \E i \in DOMAIN chunks :
          /\ Contains(chunks[i].text, <<"R", "y", "e", "g", "r", "a", "s", "s">>)
          /\ ~Contains(chunks[i].text, <<"r", "y", "e", "g", "r", "a", "s", "s">>)
          /\ \E w \in WeedsNamed(store, <<"r", "y", "e", "g", "r", "a", "s", "s">>) :
                CopiesIn(Edge("MENTIONS", ChunkNode(chunks[i]), w), store.edges) >= 1

\* the positions of h_attempted whose file parses and yields no chunk
EmptyLoads ==
    {k \in DOMAIN h_attempted :
        Files[h_attempted[k]].valid_json /\ FileChunks[h_attempted[k]] = <<>>}

Traversed == \E i \in DOMAIN calls : \E j \in DOMAIN TraversalQueries : calls[i] = TraversalQueries[j]

\* C4: in every call of hybrid_search the first query sent to the store is
\* the vector search; when the call returns, the traversal queries have been
\* sent, after it, exactly if expand_graph is true and the vector search
\* returned at least one row, and exactly then the result has a
\* graph_context; otherwise the vector search is the only query sent and
\* the result has the keys query and chunks only.
C4_TraversalIffExpansionAndResults ==
    /\ q_pc = "vector" => calls = <<>>
    /\ q_pc = "expand" => calls = <<"vector_query">>
    /\ q_pc = "return" =>
          IF expand_graph /\ h_vector # <<>>
          THEN /\ calls = <<"vector_query">> \o TraversalQueries
               /\ Traversed
               /\ DOMAIN result = {"query", "chunks", "graph_context"}
          ELSE /\ calls = <<"vector_query">>
               /\ ~Traversed
               /\ DOMAIN result = {"query", "chunks"}

\* hybrid_search returns after it was asked to expand and the vector search,
\* on a store that has chunks, returned no row
C4_Witness ==
    /\ q_pc = "return"
    /\ expand_graph
    /\ h_vector = <<>>
    /\ IndexedChunks(store) # {}

\* C5: when hybrid_search returns, the chunks of its result are the rows
\* vector_search_chunks returned in this call, in the same order and with
\* the same scores, whether or not the graph expansion ran.
C5_ChunksAreTheVectorResults == (q_pc = "return") => result.chunks = h_vector

\* hybrid_search returns after an expansion that found mentions, with a row
\* of a chunk without mentions ranked before a row of a chunk with mentions
C5_Witness ==
    /\ q_pc = "return"
    /\ "graph_context" \in DOMAIN result
    /\ \E i, j \in DOMAIN h_vector :
          /\ i < j
          /\ \E m \in result.graph_context.mentions :
                 h_vector[j].chunk_id \in m.mentioned_in_chunks
          /\ ~\E m \in result.graph_context.mentions :
                 h_vector[i].chunk_id \in m.mentioned_in_chunks

\* the m chunks linked by MENTIONS to a Weed that matches the name, and the
\* t further chunks that have the name in their text only
MentionBacked(s, name) == {r.c : r \in MentionPart(s, name)}

TextOnly(s, name) == {r.c : r \in TextPart(s, name)} \ MentionBacked(s, name)

\* C6, as claimed: when find_chunks_for_weed(name, k) returns a list, the
\* list has min(k, m + t) rows, no two rows are of the same chunk, and no
\* row of score 0.8 comes before a row of score 1.0.
C6_AsClaimed ==
    (q_pc = "find_return" /\ ~raised) =>
        /\ Len(f_rows) = Min2(q_k, Cardinality(MentionBacked(store, weed_name))
                                      + Cardinality(TextOnly(store, weed_name)))
        /\ \A i, j \in DOMAIN f_rows : i # j => f_rows[i].chunk_id # f_rows[j].chunk_id
        /\ \A i, j \in DOMAIN f_rows : i < j => ~(f_rows[i].score = 8 /\ f_rows[j].score = 10)

\* ------------------------------------------------------------------------
\* C11
\* ------------------------------------------------------------------------

RunsDone == \A r \in Runs : r_pc[r] = "done"

\* the store after call r has run alone, start to end, from store s
AloneFrom(s, r) ==
    IF Files[r_file[r]].valid_json THEN FullLoad(s, r_file[r], r_link[r], r) ELSE s

\* the store after call first and then call second, one after the other
OneAfterTheOther(first, second) == AloneFrom(AloneFrom(r_init, first), second)

\* C11: when two loads whose session.run calls took place in any order have
\* both ended, the nodes and the relationships of the store are those left
\* by the two loads run one after the other, in either order.
C11_InterleavedLoadsConverge ==
    RunsDone =>
        /\ Graph(shared) = Graph(OneAfterTheOther(1, 2))
        /\ Graph(shared) = Graph(OneAfterTheOther(2, 1))

\* both calls have written, and each wrote between two writes of the other
C11_Witness ==
    /\ RunsDone
    /\ \A r \in Runs : r_chunks[r] # <<>>
    /\ r_file[1] # r_file[2]
    /\ Len(r_turns) >= 3
    /\ Graph(shared) # Graph(r_init)

\* the same document loaded twice at the same time
C11_SameDocument ==
    /\ RunsDone
    /\ r_file[1] = r_file[2]
    /\ r_chunks[1] # <<>>
    /\ Len(r_turns) >= 3
    /\ Graph(shared) # Graph(r_init)

\* ------------------------------------------------------------------------
\* C12
\* ------------------------------------------------------------------------

StoredChunks(s) == NodesOf(s, "Chunk")

\* the positions of the rows of Chunk node c
RowsOf(rows, c) == {i \in DOMAIN rows : rows[i].chunk_id = c.key}

Descending(rows) == \A i, j \in DOMAIN rows : i < j => rows[i].score >= rows[j].score

\* vector_search_chunks has returned in the current call of hybrid_search
\* and k was at least the number of Chunk nodes
SearchedWholeCorpus ==
    /\ q_pc \in {"expand", "return"}
    /\ q_k >= Cardinality(StoredChunks(store))

C12_EmptyCorpus ==
    /\ SearchedWholeCorpus
    /\ StoredChunks(store) = {}
    /\ h_vector = <<>>

\* ------------------------------------------------------------------------
\* Properties of resume_gemini.py
\* ------------------------------------------------------------------------

Returned(f) == rs_pc[f] \in {"returned", "collected"}

\* what holds of the attempts of every call of run_single at every moment
RetryDiscipline ==
    \A f \in Pdfs :
        LET made == h_outcomes[f]
        IN  /\ attempt[f] <= max_retries
            /\ Len(made) <= max_retries
            /\ Len(made) = IF rs_pc[f] = "running" THEN attempt[f] - 1 ELSE attempt[f]
            /\ \A k \in DOMAIN made : k < Len(made) => made[k] = "rate_limit"
            /\ Len(h_waits[f]) = Cardinality({k \in DOMAIN made : made[k] = "rate_limit"})
            /\ \A k \in DOMAIN h_waits[f] :
                   h_waits[f][k] = IF base_delay * 2 ^ (k - 1) > 300 THEN 300
                                   ELSE base_delay * 2 ^ (k - 1)
            /\ (made # <<>> /\ made[Len(made)] # "rate_limit") => Returned(f)

Exhausted(f) ==
    /\ Returned(f)
    /\ h_outcomes[f] # <<>>
    /\ \A k \in DOMAIN h_outcomes[f] : h_outcomes[f][k] = "rate_limit"

\* the call ended on a failure of another kind
HardFailed(f) ==
    /\ Returned(f)
    /\ h_outcomes[f] # <<>>
    /\ h_outcomes[f][Len(h_outcomes[f])] = "hard"

\* C17, as claimed: what run_single returns for a PDF all of whose attempts
\* were rate-limited differs from what it returns for a PDF that failed
\* for another reason.
C17_AsClaimed ==
    \A f, g \in Pdfs : (Exhausted(f) /\ HardFailed(g)) => rs_result[f] # rs_result[g]

\* ------------------------------------------------------------------------
\* Properties of process_directory
\* ------------------------------------------------------------------------

\* C18: if the model call made inside extract_from_markdown never returns,
\* extract_from_markdown still returns to its caller by raising
\* APITimeoutError, and the file is then reported with status 'timeout',
\* never with status 'error'.
C18_AsClaimed ==
    /\ [](\A f \in h_hung : ~InBucket(f, "error"))
    /\ \A f \in MdFiles : (f \in h_hung) ~> InBucket(f, "timeout")

\* ------------------------------------------------------------------------
\* Properties of parse_pdf
\* ------------------------------------------------------------------------

\* C19: when the parser raises, or returns nothing, parse_pdf returns a
\* result with success False and the error message set, and there is no file
\* at output_path afterwards.
C19_ParserFailureIsReported ==
    (p_pc = "returned" /\ h_outcome \in {"raised", "nothing"})
        => /\ p_result.success = FALSE
           /\ p_result.error # Null
           /\ p_out[p_i] = Null

\* the parser raised on a forced parse of a PDF whose output existed
C19_Witness ==
    /\ p_pc = "returned"
    /\ h_outcome = "raised"
    /\ h_before = OldContent
    /\ p_result.error = <<"API Error">>
    /\ p_out[p_i] = Null

\* C20: when the output file exists and force is not set, parse_pdf returns
\* success True and skipped True, never calls the parser, and leaves the
\* output file as it was.
C20_ExistingOutputIsSkipped ==
    (p_pc = "returned" /\ h_before # Null /\ ~force)
        => /\ p_result.success
           /\ p_result.skipped
           /\ aload_calls[p_i] = 0
           /\ p_out[p_i] = h_before

\* parse_pdf has returned on a PDF whose output existed, force not set
C20_Witness ==
    /\ p_pc = "returned"
    /\ ~force
    /\ h_before = OldContent
    /\ p_out[p_i] = OldContent
    /\ p_result.skipped

\* ------------------------------------------------------------------------
\* Further properties of the chunker
\* ------------------------------------------------------------------------

\* the block at position i was split and its sub-chunks emitted
WasSplit(i) == IsLarge(BlockAt(i), c_max) /\ ~IsShortBlock(BlockAt(i)) /\ ChunksFrom(i) # <<>>

\* the suffix "-part<n>" of the identifier of sub-chunk number n
PartSuffix(n) == <<"-", "p", "a", "r", "t">> \o Str(n)

\* The identifiers of the chunks of block i are one string with the part
\* suffixes "-part0", "-part1", ... put in at one place.
IdsDifferByPartOnly(i) ==
    LET cs     == ChunksFrom(i)
        id1    == cs[1].c.chunk_id
        places == {p \in 1..(Len(id1) - Len(PartSuffix(0)) + 1) :
                      SubSeq(id1, p, p + Len(PartSuffix(0)) - 1) = PartSuffix(0)}
    IN  /\ places # {}
        /\ LET p      == MinOf(places)
               before == SubSeq(id1, 1, p - 1)
               after  == SubSeq(id1, p + Len(PartSuffix(0)), Len(id1))
           IN  \A k \in DOMAIN cs : cs[k].c.chunk_id = before \o PartSuffix(k - 1) \o after

\* C22 as claimed: the sub-chunks of a split table all carry the same
\* sequence_order, and identifiers that differ only by their part suffix.
C22_AsClaimed ==
    ChunkerDone =>
        \A i \in DOMAIN c_tables :
            WasSplit(i) =>
                /\ \A k \in DOMAIN ChunksFrom(i) :
                      ChunksFrom(i)[k].c.sequence_order = ChunksFrom(i)[1].c.sequence_order
                /\ IdsDifferByPartOnly(i)

\* C22 amended: the sub-chunks of a split table carry consecutive
\* sequence_order values, from the sequence number the table was reached
\* with, and identifiers that differ only by their part suffix.
C22_ConsecutiveOrdersAndPartSuffixes ==
    ChunkerDone =>
        \A i \in DOMAIN c_tables :
            WasSplit(i) =>
                /\ \A k \in DOMAIN ChunksFrom(i) :
                      ChunksFrom(i)[k].c.sequence_order
                          = ChunksFrom(i)[1].c.sequence_order + (k - 1)
                /\ IdsDifferByPartOnly(i)

\* a finished call that split a table into three sub-chunks or more, after
\* another block had been emitted
C22_Witness ==
    /\ ChunkerDone
    /\ \E i \in DOMAIN c_tables :
          /\ WasSplit(i)
          /\ Len(ChunksFrom(i)) >= 3
          /\ ChunksFrom(i)[1].c.sequence_order >= 1

\* every sub-group of block i but the last holds n data rows, and the last
\* one holds at most n
GroupsOf(i, n) ==
    LET cs == ChunksFrom(i)
    IN  /\ \A k \in 1..(Len(cs) - 1) : cs[k].c.row_count = n
        /\ cs[Len(cs)].c.row_count <= n

\* C23 as claimed: when a table is split, every sub-group except possibly
\* the last holds ceil(D / ceil(T / M)) data rows.
C23_AsClaimed ==
    ChunkerDone =>
        \A i \in DOMAIN c_tables :
            WasSplit(i) =>
                GroupsOf(i, CeilDiv(Len(DataRows(BlockAt(i))),
                                    CeilDiv(EstimatedTokens(BlockAt(i)), c_max)))

\* C23 amended: when a table is split, every sub-group except possibly the
\* last holds max(1, floor(D / (floor(T / M) + 1))) data rows.
C23_RowsPerSubGroup ==
    ChunkerDone =>
        \A i \in DOMAIN c_tables :
            WasSplit(i) =>
                GroupsOf(i, Max2(1, Len(DataRows(BlockAt(i)))
                                      \div ((EstimatedTokens(BlockAt(i)) \div c_max) + 1)))

\* a finished call that split one table into sub-groups of one row and
\* another into sub-groups of two rows or more with a shorter last one
C23_Witness ==
    /\ ChunkerDone
    /\ \E i \in DOMAIN c_tables :
          WasSplit(i) /\ Len(ChunksFrom(i)) >= 2 /\ ChunksFrom(i)[1].c.row_count = 1
    /\ \E i \in DOMAIN c_tables :
          /\ WasSplit(i)
          /\ ChunksFrom(i)[1].c.row_count >= 2
          /\ ChunksFrom(i)[Len(ChunksFrom(i))].c.row_count < ChunksFrom(i)[1].c.row_count

\* the block at position i is not a weed table, is classified general and
\* was emitted
Unclassified(i) ==
    /\ ChunksFrom(i) # <<>>
    /\ ~IsWeedTable(BlockAt(i))
    /\ SectionOf(BlockAt(i)) = "general"

\* the chunk type the column count gives
TypeByColumns(table) == IF table.column_count <= 2 THEN "metadata" ELSE "table"

\* C24 as claimed: an emitted block that is not a weed table and is
\* classified general is typed by the section label carried to it
\* (directions under directions_for_use, metadata under metadata), and by its
\* column count only when no label is carried.
C24_AsClaimed ==
    ChunkerDone =>
        \A i \in DOMAIN c_tables :
            Unclassified(i) =>
                \A k \in DOMAIN ChunksFrom(i) :
                    LET c == ChunksFrom(i)[k].c
                    IN  /\ c.parent_section = "directions_for_use"
                            => c.chunk_type = "directions"
                        /\ c.parent_section = "metadata" => c.chunk_type = "metadata"
                        /\ c.parent_section = NoSection
                            => c.chunk_type = TypeByColumns(BlockAt(i))

\* C24 amended: an emitted block that is not a weed table and is classified
\* general is typed by its column count, whatever section label is carried
\* to it.
C24_UnclassifiedTypedByColumns ==
    ChunkerDone =>
        \A i \in DOMAIN c_tables :
            Unclassified(i) =>
                \A k \in DOMAIN ChunksFrom(i) :
                    ChunksFrom(i)[k].c.chunk_type = TypeByColumns(BlockAt(i))

\* a finished call emitted a 3-column unclassified block as table under the
\* carried label directions_for_use
C24_Witness ==
    /\ ChunkerDone
    /\ \E i \in DOMAIN c_tables :
          /\ Unclassified(i)
          /\ BlockAt(i).column_count = 3
          /\ ChunksFrom(i)[1].c.parent_section = "directions_for_use"
          /\ ChunksFrom(i)[1].c.chunk_type = "table"

\* the blocks before position i, of the document being chunked, that are not
\* empty and have a label other than general
LabelledBefore(i) ==
    {j \in 1..(i - 1) : ~IsEmptyBlock(BlockAt(j)) /\ SectionOf(BlockAt(j)) # "general"}

\* C25: the parent_section of every emitted chunk is the label of its block
\* when that is not general, otherwise the label of the nearest earlier
\* non-empty block of the document with a label other than general, emitted
\* or not, and null when there is none; nothing is carried over from an
\* earlier call.
C25_ParentSectionIsNearestLabel ==
    \A k \in DOMAIN yielded :
        LET i == yield_from[k]
        IN  yielded[k].parent_section =
                IF SectionOf(BlockAt(i)) # "general" THEN SectionOf(BlockAt(i))
                ELSE IF LabelledBefore(i) = {} THEN NoSection
                ELSE SectionOf(BlockAt(MaxOf(LabelledBefore(i))))

\* a second call has finished on a document whose first block is
\* unclassified and whose last block, unclassified too, follows a labelled
\* block that was too short to be emitted
C25_Witness ==
    /\ c_pc = "idle" /\ c_run >= 2
    /\ \E k \in DOMAIN yielded :
          yield_from[k] = 1 /\ yielded[k].parent_section = NoSection
    /\ \E k \in DOMAIN yielded :
          LET i == yield_from[k]
          IN  /\ SectionOf(BlockAt(i)) = "general"
              /\ LabelledBefore(i) # {}
              /\ IsShortBlock(BlockAt(MaxOf(LabelledBefore(i))))
              /\ yielded[k].parent_section # NoSection

\* C30: the chunks a call has yielded have pairwise distinct chunk_id
\* values, the short hash taken as collision-free.
C30_ChunkIdsAreDistinct ==
    \A k1, k2 \in DOMAIN yielded :
        k1 # k2 => yielded[k1].chunk_id # yielded[k2].chunk_id

\* a finished call on a document with a split table that has no id of its
\* own and two emitted tables that share one id
C30_Witness ==
    /\ ChunkerDone
    /\ \E i \in DOMAIN c_tables :
          ~BlockAt(i).has_id /\ WasSplit(i) /\ Len(ChunksFrom(i)) >= 2
    /\ \E i, j \in DOMAIN c_tables :
          /\ i # j
          /\ BlockAt(i).has_id /\ BlockAt(j).has_id
          /\ BlockAt(i).id = BlockAt(j).id
          /\ ChunksFrom(i) # <<>> /\ ChunksFrom(j) # <<>>

(***************************************************************************)
(* Further properties of the chunk loader                                  *)
(***************************************************************************)

\* the NEXT relationship into chunk k of the document being loaded
NextEdge(k) == Edge("NEXT", ChunkNode(chunks[k - 1]), ChunkNode(chunks[k]))

\* a load is between its first chunk write and its return
InChunkLoop == l_pc \in {"chunk", "next", "link", "return"} /\ chunks # <<>>

\* the chunks whose NEXT write has been made: all before chunk l_i, and
\* chunk l_i once the loop is past step 4
NextWritten ==
    {k \in 2..Len(chunks) : k < l_i \/ (k = l_i /\ l_pc \in {"link", "return"})}

\* the NEXT relationships between Chunk nodes of one product, each counted
\* as often as the store holds it
DocumentNextEdges(s, product_number) ==
    LET es == {e \in EdgesOf(s, "NEXT") :
                  /\ Prop(s, e.src, "product_number") = product_number
                  /\ Prop(s, e.dst, "product_number") = product_number}
    IN  Sum([e \in es |-> CopiesIn(e, s.edges)], es)

C26_State ==
    InChunkLoop =>
        /\ l_pc = "next" =>
              /\ l_i >= 2
              /\ CopiesIn(ChunkNode(chunks[l_i - 1]), store.nodes) >= 1
              /\ CopiesIn(ChunkNode(chunks[l_i]), store.nodes) >= 1
              /\ \A k \in (l_i + 1)..Len(chunks) :
                    CopiesIn(ChunkNode(chunks[k]), store.nodes)
                      = CopiesIn(ChunkNode(chunks[k]), h_start.nodes)
        /\ \A k \in NextWritten : CopiesIn(NextEdge(k), store.edges) >= 1
        /\ stats.next_rels = Cardinality(NextWritten)
        /\ l_pc = "return" =>
              stats.next_rels = DocumentNextEdges(store, chunks[1].product_number)

C26_Step ==
    EdgesOf(store', "NEXT") # EdgesOf(store, "NEXT") =>
        /\ l_pc = "next"
        /\ EdgesOf(store', "NEXT") = EdgesOf(store, "NEXT") \cup {NextEdge(l_i)}
        /\ \A k \in 2..(l_i - 1) : NextEdge(k) \in EdgesOf(store, "NEXT")

\* C26: while one document is loaded, the NEXT relationship into chunk i is
\* written when both Chunk nodes are in the store and before any write for
\* chunk i+1, so the NEXT relationships appear in sequence order and none is
\* lost to a missing end; the next_rels count the load reports is the number
\* of NEXT relationships the document has in the store.
C26_NextFollowsBothUpserts == [](C26_State) /\ [][C26_Step]_vars

\* a document of three chunks or more has been loaded, up to the return
C26_Witness ==
    /\ l_pc = "return"
    /\ Len(chunks) >= 3
    /\ stats.next_rels = Len(chunks) - 1
    /\ \A k \in 2..Len(chunks) : NextEdge(k) \in EdgesOf(store, "NEXT")

EntityLabels == {"Herbicide", "Weed", "Crop"}

\* the Herbicide, Weed and Crop nodes of a store: how many of each and with
\* which properties
EntityNodes(s) ==
    LET ns == {n \in BagToSet(s.nodes) : n.label \in EntityLabels}
    IN  [n \in ns |-> [copies |-> CopiesIn(n, s.nodes), props |-> s.props[n]]]

\* the relationships a step adds
AddedEdges(type) == EdgesOf(store', type) \ EdgesOf(store, type)

\* the step is a session.run that returned, not one that raised
RunReturned == l_pc \in WritePcs /\ failures' = failures /\ l_pc' # l_pc

\* a session.run of step 5 for one name returned
MentionRun == l_pc = "link" /\ failures' = failures /\ <<l_weeds, l_crops>>' # <<l_weeds, l_crops>>

\* the name step 5 has just been run for matched no node
NoMatchRun ==
    \/ \E weed \in l_weeds \ l_weeds' : MatchingWeeds(store, weed) = {}
    \/ \E crop \in l_crops \ l_crops' : MatchingCrops(store, crop) = {}

C27_Step ==
    /\ EntityNodes(store') = EntityNodes(store)
    /\ \A e \in AddedEdges("HAS_LABEL") :
          e.src.label = "Herbicide" /\ CopiesIn(e.src, store.nodes) >= 1
    /\ \A e \in AddedEdges("MENTIONS") :
          e.dst.label \in {"Weed", "Crop"} /\ CopiesIn(e.dst, store.nodes) >= 1
    /\ (/\ l_pc = "herbicide"
        /\ failures' = failures
        /\ NodesOf(store, "Herbicide") \cap {Node("Herbicide", chunks[1].product_number)} = {})
       => /\ store' = store
          /\ l_pc' = "chunk"
          /\ total_stats'.errors = total_stats.errors
    /\ (MentionRun /\ NoMatchRun)
       => /\ store' = store
          /\ stats' = stats
          /\ l_pc' \in {"link", "chunk", "return"}
          /\ total_stats'.errors = total_stats.errors

\* C27: no step of the chunk loader adds, removes or changes a Herbicide,
\* Weed or Crop node; HAS_LABEL and MENTIONS relationships are added only to
\* such nodes already in the store; and where the document's Herbicide, or a
\* Weed or Crop matching a name, is not in the store, the statement changes
\* nothing and the load goes on without an error.
C27_EntitiesAreOnlyLinkedTo == [][C27_Step]_vars

\* a load that linked its Document to the Herbicide and a chunk to a Weed or
\* Crop, and that ran step 5 for a name no node matched, has reached its
\* return with the entities it started with
C27_Witness ==
    /\ l_pc = "return"
    /\ link_entities
    /\ EdgesOf(store, "HAS_LABEL") \ EdgesOf(h_start, "HAS_LABEL") # {}
    /\ EdgesOf(store, "MENTIONS") \ EdgesOf(h_start, "MENTIONS") # {}
    /\ \E i \in 1..Len(chunks) :
          \/ \E weed \in mentions[i].weeds : MatchingWeeds(store, weed) = {}
          \/ \E crop \in mentions[i].crops : MatchingCrops(store, crop) = {}
    /\ EntityNodes(store) = EntityNodes(h_start)
    /\ EntityNodes(store) # <<>>

(***************************************************************************)
(* Properties of the lookups                                               *)
(***************************************************************************)

\* the labels whose chunks have been loaded
LoadedLabels(s) ==
    {d \in DOMAIN LabelDocuments : BagIn(ChunkNode(LabelDocuments[d][1]), s.nodes)}

\* the chunk ids at the positions from..to of the label d
IdsAt(d, from, to) == {LabelDocuments[d][j].chunk_id : j \in from..to}

EntryIds(entries) == {entries[i].id : i \in DOMAIN entries}

\* the entries are those of the chunks from..to of the label d, each once
IsWindow(entries, d, from, to) ==
    /\ EntryIds(entries) = IdsAt(d, from, to)
    /\ Len(entries) = Cardinality(IdsAt(d, from, to))
    /\ \A i \in DOMAIN entries :
          \E j \in from..to : /\ entries[i].id = LabelDocuments[d][j].chunk_id
                              /\ entries[i].text = LabelDocuments[d][j].text

\* C21: for the chunk at position p of a loaded label of n chunks,
\* get_chunk_context(chunk_id, N) returns the chunk itself with the chunks
\* N positions back to p-1 as prev_chunks and those from p+1 to N positions
\* on as next_chunks, cut at the ends of the label, no more than N on either
\* side and none of another label; for a chunk_id that is not in the store
\* it returns None.
C21_ContextIsTheWindow ==
    k_call.fn = "get_chunk_context" =>
        LET N == k_call.context_window
        IN  /\ \A d \in LoadedLabels(k_store) : \A p \in DOMAIN LabelDocuments[d] :
                  LabelDocuments[d][p].chunk_id = k_call.chunk_id =>
                      /\ k_result.found
                      /\ k_result.chunk_id = k_call.chunk_id
                      /\ k_result.text = LabelDocuments[d][p].text
                      /\ k_result.product_number = LabelDocuments[d][p].product_number
                      /\ IsWindow(k_result.prev_chunks, d, Max2(1, p - N), p - 1)
                      /\ IsWindow(k_result.next_chunks, d, p + 1,
                                  Min2(Len(LabelDocuments[d]), p + N))
                      /\ Len(k_result.prev_chunks) <= N
                      /\ Len(k_result.next_chunks) <= N
            /\ ~BagIn(Node("Chunk", k_call.chunk_id), k_store.nodes) => k_result = NoRecord

\* with both labels loaded, the context of a chunk in the middle of a label
\* of five has been asked for with a window of one
C21_Witness ==
    /\ k_call.fn = "get_chunk_context"
    /\ k_call.context_window = 1
    /\ k_call.chunk_id = LabelDocuments[1][3].chunk_id
    /\ LoadedLabels(k_store) = DOMAIN LabelDocuments
    /\ k_result.found
    /\ EntryIds(k_result.prev_chunks) = {LabelDocuments[1][2].chunk_id}
    /\ EntryIds(k_result.next_chunks) = {LabelDocuments[1][4].chunk_id}

\* C28: when find_herbicides_for_weed is called with a crop, the crop of
\* every record it returns contains that crop in any letter case, and when
\* it is called with a state, the states of every record include that
\* state, whether the weed name matched the common_name or the display_name.
C28_AsClaimed ==
    k_call.fn = "find_herbicides_for_weed" =>
        \A i \in DOMAIN k_result.records :
            /\ CropFilter(k_result.records[i], k_call.crop)
            /\ StateFilter(k_result.records[i], k_call.state)

\* the weed names of WEED_PATTERNS of two words and no optional letter
MultiWordWeeds ==
    {WEED_PATTERNS[i] : i \in {j \in DOMAIN WEED_PATTERNS :
        /\ \E k \in DOMAIN WEED_PATTERNS[j] : WEED_PATTERNS[j][k] = "WS*"
        /\ \A k \in DOMAIN WEED_PATTERNS[j] :
              WEED_PATTERNS[j][k] \notin {"D+", "AZ"} \cup DOMAIN OptionalChar}}

\* the name with one space between its words, and with none
SpacedName(pattern) ==
    [i \in DOMAIN pattern |-> IF pattern[i] = "WS*" THEN " " ELSE pattern[i]]

JoinedName(pattern) == Replace(SpacedName(pattern), <<" ">>, <<>>)

HasWhitespace(key) == \E i \in DOMAIN key : key[i] \in Whitespace

\* C29: a text with a two-word weed name in it, its words joined or set
\* apart by a space, a tab or a newline, gives one lower-case key without
\* whitespace, and the load of a chunk with such a text links the chunk by
\* MENTIONS to the Weed node the entity loader keeps under that name.
C29_AsClaimed ==
    /\ k_call.fn = "extract_entity_mentions" =>
          \A pattern \in MultiWordWeeds :
              Search(pattern, Lower(k_call.text)) =>
                  /\ JoinedName(pattern) \in k_result.weeds
                  /\ \A key \in k_result.weeds : ~HasWhitespace(key) /\ key = Lower(key)
    /\ k_call.fn = "load_chunks_from_docling" =>
          \A k \in DOMAIN LabelDocuments[k_call.label] : \A pattern \in MultiWordWeeds :
              LET chunk == LabelDocuments[k_call.label][k]
                  weed  == Node("Weed", normalize_weed_name(SpacedName(pattern)))
              IN  (Search(pattern, Lower(chunk.text)) /\ BagIn(weed, k_store.nodes))
                      => BagIn(Edge("MENTIONS", ChunkNode(chunk), weed), k_store.edges)
====
